---- MODULE Spec2Model ----
(***************************************************************************)
(* Model of the traffic-violation engine: VehicleTracker                   *)
(* (app/ai/vehicle_tracker.py), RedLightSystem (app/ai/red_light.py) and   *)
(* the session worker and session registry of app/sockets.py.              *)
(*                                                                         *)
(* Conventions                                                             *)
(*  - Python None is the empty tuple <<>>, a present value x is <<x>>.     *)
(*  - A Python dict is a TLA+ function; its iteration order is insertion   *)
(*    order, which for tracked_vehicles is increasing id.                  *)
(*  - An IoU is the exact fraction [num, den] with den > 0.                *)
(*  - A speed is a fixed-point number of 1/1000 km/h (SpeedScale), pixel   *)
(*    distances are fixed-point 1/100 px (DistScale), both rounded down.   *)
(***************************************************************************)
EXTENDS Integers, Sequences, FiniteSets, TLC

VARIABLES
    \* ---- VehicleTracker fields (vehicle_tracker.py:21-27)
    next_id, tracked_vehicles, iou_threshold, max_missing_frames,
    total_violations_cumulative,
    \* ---- a second VehicleTracker instance with the same configuration:
    \*      its next_id, its tracked_vehicles and what its last update returned
    twin,
    \* ---- RedLightSystem fields (red_light.py:10-15)
    stop_line_y, last_detected_signal_bbox, vehicle_positions,
    \* ---- locals of process_video_stream (sockets.py:109-468)
    pc, frame_idx, fps, pending_violations, db_violations,
    \* ---- module globals of sockets.py (sockets.py:28-31)
    active_video_sessions, processing_sessions,
    \* ---- handlers and workers of the session registry (sockets.py:50-106)
    handler, worker,
    \* ---- observation of the run (not program state)
    created, last_call, events, resolutions, termination

vars == <<next_id, tracked_vehicles, iou_threshold, max_missing_frames,
          total_violations_cumulative, twin, stop_line_y, last_detected_signal_bbox,
          vehicle_positions, pc, frame_idx, fps, pending_violations,
          db_violations, active_video_sessions, processing_sessions,
          handler, worker, created, last_call, events, resolutions,
          termination>>

trackerVars == <<next_id, tracked_vehicles, iou_threshold, max_missing_frames,
                 total_violations_cumulative, twin>>
redLightVars == <<stop_line_y, last_detected_signal_bbox, vehicle_positions>>
sessionVars == <<pc, frame_idx, fps, pending_violations, db_violations>>
obsVars == <<created, last_call, events, resolutions, termination>>
registryVars == <<active_video_sessions, processing_sessions, handler, worker>>

----------------------------------------------------------------------------
(* Generic helpers *)

None == <<>>
Some(x) == <<x>>

Max2(a, b) == IF a >= b THEN a ELSE b
Min2(a, b) == IF a <= b THEN a ELSE b
SetMin(S) == CHOOSE x \in S : \A y \in S : x <= y

\* dict with key k set to v (insertion or overwrite)
DictSet(d, k, v) == [x \in (DOMAIN d) \cup {k} |-> IF x = k THEN v ELSE d[x]]
\* del d[k]
DictDel(d, k) == [x \in (DOMAIN d) \ {k} |-> d[x]]

\* floor(sqrt(n)) for n >= 0, by bisection on [lo, hi]
RECURSIVE ISqrtIn(_, _, _)
ISqrtIn(n, lo, hi) ==
    IF lo >= hi THEN lo
    ELSE LET mid == (lo + hi + 1) \div 2
         IN IF mid * mid <= n THEN ISqrtIn(n, mid, hi) ELSE ISqrtIn(n, lo, mid - 1)
ISqrt(n) == ISqrtIn(n, 0, Min2(n, 46340))

----------------------------------------------------------------------------
(* Program constants *)

RedLight == "Red Light Violation"
Speeding == "Speeding Violation"
ViolationTypes == {RedLight, Speeding}

SpeedScale == 1000
DistScale == 100
\* the factor 3.6 (m/s to km/h) between the two fixed-point scales
KmhFactor == (36 * SpeedScale) \div (10 * DistScale)
\* Config.SPEED_LIMIT default, km/h
SPEED_LIMIT == 60
\* Config.PIXELS_PER_METER default
PIXELS_PER_METER == 40
\* ppm literal of the flush loop
FLUSH_PPM == 40
\* frames a pending entry waits before it is resolved
CONFIRM_FRAMES == 5
\* centroid history cap
MAX_CENTROIDS == 30
\* sliding window of calculate_speed
SPEED_WINDOW == 5
\* minimum pixel count of detect_signal_state
MIN_SIGNAL_PIXELS == 50

----------------------------------------------------------------------------
(* VehicleTracker *)

\* line 61 dividing by the area of the first box instead of the union
calculate_iou_over_first(bbox1, bbox2) ==
    LET x1_i == Max2(bbox1[1], bbox2[1])
        y1_i == Max2(bbox1[2], bbox2[2])
        x2_i == Min2(bbox1[3], bbox2[3])
        y2_i == Min2(bbox1[4], bbox2[4])
        intersection == (x2_i - x1_i) * (y2_i - y1_i)
        area1 == (bbox1[3] - bbox1[1]) * (bbox1[4] - bbox1[2])
    IN IF x2_i < x1_i \/ y2_i < y1_i THEN [num |-> 0, den |-> 1]
       ELSE IF area1 <= 0 THEN [num |-> 0, den |-> 1]
       ELSE [num |-> intersection, den |-> area1]

\* calculate_iou(bbox1, bbox2): the fraction intersection / union
calculate_iou(bbox1, bbox2) ==
    LET x1_i == Max2(bbox1[1], bbox2[1])
        y1_i == Max2(bbox1[2], bbox2[2])
        x2_i == Min2(bbox1[3], bbox2[3])
        y2_i == Min2(bbox1[4], bbox2[4])
        intersection == (x2_i - x1_i) * (y2_i - y1_i)
        area1 == (bbox1[3] - bbox1[1]) * (bbox1[4] - bbox1[2])
        area2 == (bbox2[3] - bbox2[1]) * (bbox2[4] - bbox2[2])
        union == area1 + area2 - intersection
    IN IF x2_i < x1_i \/ y2_i < y1_i THEN [num |-> 0, den |-> 1]
       ELSE IF union = 0 THEN [num |-> 0, den |-> 1]
       ELSE IF union < 0 THEN [num |-> 0 - intersection, den |-> 0 - union]
       ELSE [num |-> intersection, den |-> union]

\* fraction comparisons (denominators are positive)
FracGT(a, b) == a.num * b.den > b.num * a.den
FracGE(a, b) == a.num * b.den >= b.num * a.den

\* the centroid of a box: floor division of the coordinate sums
centroid(bbox) == <<(bbox[1] + bbox[3]) \div 2, (bbox[2] + bbox[4]) \div 2>>

\* lines 74-76: every track is marked as not seen this frame
age_all(tv) == [id \in DOMAIN tv |-> [tv[id] EXCEPT !.frames_missing = @ + 1]]

\* line 96 without the test against the threshold
better_match_any_overlap(iou, best_iou, thr) == FracGT(iou, best_iou)

\* line 96 with iou >= best_iou: a later track with the same iou replaces
\* the earlier one
better_match_last_wins(iou, best_iou, thr) ==
    iou.num > 0 /\ FracGE(iou, best_iou) /\ FracGE(iou, thr)

\* line 96: does this track's iou replace the best one found so far
better_match(iou, best_iou, thr) == FracGT(iou, best_iou) /\ FracGE(iou, thr)

\* lines 86-98 without the class test of lines 91-92
RECURSIVE best_match_any_class(_, _, _, _, _, _)
best_match_any_class(tv, ids, bbox, cls, thr, best) ==
    IF ids = {} THEN best
    ELSE LET vehicle_id == SetMin(ids)
             iou == calculate_iou(bbox, tv[vehicle_id].bbox)
             nbest == IF better_match(iou, best.best_iou, thr)
                      THEN [best_match_id |-> Some(vehicle_id), best_iou |-> iou]
                      ELSE best
         IN best_match_any_class(tv, ids \ {vehicle_id}, bbox, cls, thr, nbest)

\* lines 86-98: scan the tracks in dict order (increasing id)
RECURSIVE best_match(_, _, _, _, _, _)
best_match(tv, ids, bbox, cls, thr, best) ==
    IF ids = {} THEN best
    ELSE LET vehicle_id == SetMin(ids)
             vehicle == tv[vehicle_id]
             iou == calculate_iou(bbox, vehicle.bbox)
             nbest == IF vehicle.class_name # cls THEN best
                      ELSE IF better_match(iou, best.best_iou, thr)
                           THEN [best_match_id |-> Some(vehicle_id), best_iou |-> iou]
                           ELSE best
         IN best_match(tv, ids \ {vehicle_id}, bbox, cls, thr, nbest)

\* lines 113-114 dropping the newest entry instead of the oldest
cap_centroids_drop_newest(cs) ==
    IF Len(cs) > MAX_CENTROIDS THEN SubSeq(cs, 1, MAX_CENTROIDS) ELSE cs

\* lines 113-114: the history keeps at most MAX_CENTROIDS entries
cap_centroids(cs) == IF Len(cs) > MAX_CENTROIDS THEN Tail(cs) ELSE cs

\* lines 102-114: an existing track takes the detection
match_vehicle(vehicle, det, fidx) ==
    [vehicle EXCEPT !.bbox = det.bbox,
                    !.confidence = det.confidence,
                    !.last_frame = fidx,
                    !.frames_missing = 0,
                    !.centroids = cap_centroids(Append(@, centroid(det.bbox)))]

\* lines 134-147: the record of a new track
new_vehicle(det, fidx) ==
    [bbox |-> det.bbox, class_name |-> det.class_name,
     confidence |-> det.confidence, first_frame |-> fidx, last_frame |-> fidx,
     frames_missing |-> 0, violation_count |-> 0, license_plate |-> None,
     has_violated |-> FALSE, violated_types |-> {},
     centroids |-> <<centroid(det.bbox)>>, speed_kmh |-> 0]

\* lines 127-128 without the increment
alloc_id_no_increment(nid) == [vehicle_id |-> nid, next_id |-> nid]

\* lines 127-128: vehicle_id = self.next_id; self.next_id += 1
alloc_id(nid) == [vehicle_id |-> nid, next_id |-> nid + 1]

\* lines 116-124 and 149-157: the snapshot returned for a detection
snapshot(vehicle_id, det, vehicle) ==
    [id |-> vehicle_id, bbox |-> det.bbox, class_name |-> det.class_name,
     confidence |-> det.confidence, violation_count |-> vehicle.violation_count,
     license_plate |-> vehicle.license_plate, speed_kmh |-> vehicle.speed_kmh]

\* lines 80-157: the detections are processed in list order
RECURSIVE update_dets(_, _, _, _, _)
update_dets(st, dets, i, fidx, thr) ==
    IF i > Len(dets) THEN st
    ELSE LET det == dets[i]
             m == best_match(st.tracked_vehicles, DOMAIN st.tracked_vehicles,
                             det.bbox, det.class_name, thr,
                             [best_match_id |-> None, best_iou |-> [num |-> 0, den |-> 1]])
         IN IF m.best_match_id # None
            THEN LET vid == m.best_match_id[1]
                     v == match_vehicle(st.tracked_vehicles[vid], det, fidx)
                 IN update_dets(
                      [st EXCEPT !.tracked_vehicles = DictSet(@, vid, v),
                                 !.tracked_detections = Append(@, snapshot(vid, det, v)),
                                 !.matched = Append(@, vid)],
                      dets, i + 1, fidx, thr)
            ELSE LET a == alloc_id(st.next_id)
                     v == new_vehicle(det, fidx)
                 IN update_dets(
                      [st EXCEPT !.tracked_vehicles = DictSet(@, a.vehicle_id, v),
                                 !.next_id = a.next_id,
                                 !.tracked_detections = Append(@, snapshot(a.vehicle_id, det, v)),
                                 !.allocated = Append(@, [id |-> a.vehicle_id, bbox |-> det.bbox,
                                                          class_name |-> det.class_name])],
                      dets, i + 1, fidx, thr)

\* lines 159-166 with the test frames_missing >= max_missing_frames
remove_old_at_limit(tv, mmf) ==
    [id \in {v \in DOMAIN tv : ~(tv[v].frames_missing >= mmf)} |-> tv[id]]

\* lines 159-166: tracks missing for more than max_missing_frames are removed
remove_old(tv, mmf) ==
    [id \in {v \in DOMAIN tv : ~(tv[v].frames_missing > mmf)} |-> tv[id]]

\* update returning a snapshot of every track left in the store
update_returns_live(tv, nid, thr, mmf, dets, fidx) ==
    LET st0 == [tracked_vehicles |-> age_all(tv), next_id |-> nid,
                tracked_detections |-> <<>>, allocated |-> <<>>, matched |-> <<>>]
        st1 == update_dets(st0, dets, 1, fidx, thr)
        live == remove_old(st1.tracked_vehicles, mmf)
        RECURSIVE views(_)
        views(ids) ==
            IF ids = {} THEN <<>>
            ELSE LET id == SetMin(ids)
                 IN <<snapshot(id, live[id], live[id])>> \o views(ids \ {id})
    IN [st1 EXCEPT !.tracked_vehicles = live,
                   !.tracked_detections = views(DOMAIN live)]

\* update(detections, frame_idx) on a tracker with dict tv and counter nid.
\* Besides the new fields and the returned list it reports the ids it
\* allocated and the ids it matched, in order.
update(tv, nid, thr, mmf, dets, fidx) ==
    LET st0 == [tracked_vehicles |-> age_all(tv), next_id |-> nid,
                tracked_detections |-> <<>>, allocated |-> <<>>, matched |-> <<>>]
        st1 == update_dets(st0, dets, 1, fidx, thr)
    IN [st1 EXCEPT !.tracked_vehicles = remove_old(@, mmf)]

\* calculate_speed(vehicle_id, fps, ppm) -> the returned speed, the new dict,
\* and whether the call raised (ZeroDivisionError at frames_to_use / fps)
calculate_speed(tv, vehicle_id, f, ppm) ==
    IF vehicle_id \notin DOMAIN tv
    THEN [raised |-> FALSE, speed |-> 0, tracked_vehicles |-> tv]
    ELSE LET vehicle == tv[vehicle_id]
             centroids == vehicle.centroids
         IN IF Len(centroids) < 2
            THEN [raised |-> FALSE, speed |-> vehicle.speed_kmh, tracked_vehicles |-> tv]
            ELSE IF f = 0
            THEN [raised |-> TRUE, speed |-> 0, tracked_vehicles |-> tv]
            ELSE LET frames_to_use == Min2(SPEED_WINDOW, Len(centroids))
                     p1 == centroids[Len(centroids) - frames_to_use + 1]
                     p2 == centroids[Len(centroids)]
                     d2 == (p2[1] - p1[1]) * (p2[1] - p1[1])
                           + (p2[2] - p1[2]) * (p2[2] - p1[2])
                     pixel_dist == ISqrt(d2 * DistScale * DistScale)
                     \* time_elapsed_s = frames_to_use / fps is positive iff fps > 0
                     raw == IF f > 0
                            THEN (pixel_dist * f * KmhFactor) \div (ppm * frames_to_use)
                            ELSE 0
                     speed_kmh == IF vehicle.speed_kmh > 0
                                  THEN (vehicle.speed_kmh * 6 + raw * 4) \div 10
                                  ELSE raw
                 IN [raised |-> FALSE, speed |-> speed_kmh,
                     tracked_vehicles |-> [tv EXCEPT ![vehicle_id].speed_kmh = speed_kmh]]

\* line 222 with the type test dropped
is_new_type_always(vehicle, violation_type) == TRUE

\* line 222 with a Speeding mark that does not last
is_new_type_speeding_again(vehicle, violation_type) ==
    violation_type = Speeding \/ violation_type \notin vehicle.violated_types

\* line 222: the type was not recorded on this track yet
is_new_type(vehicle, violation_type) == violation_type \notin vehicle.violated_types

\* lines 222-227 with the cumulative counter raised by the track's new count
mark_violation_count_twice(tv, total, vehicle_id, violation_type) ==
    IF vehicle_id \in DOMAIN tv /\ is_new_type(tv[vehicle_id], violation_type)
    THEN [ret |-> TRUE,
          tracked_vehicles |->
              [tv EXCEPT ![vehicle_id].violated_types = @ \cup {violation_type},
                         ![vehicle_id].violation_count = @ + 1,
                         ![vehicle_id].has_violated = TRUE],
          total |-> total + tv[vehicle_id].violation_count + 1]
    ELSE [ret |-> FALSE, tracked_vehicles |-> tv, total |-> total]

\* lines 222-227 without the assignment of line 225
mark_violation_flag_unset(tv, total, vehicle_id, violation_type) ==
    IF vehicle_id \in DOMAIN tv /\ is_new_type(tv[vehicle_id], violation_type)
    THEN [ret |-> TRUE,
          tracked_vehicles |->
              [tv EXCEPT ![vehicle_id].violated_types = @ \cup {violation_type},
                         ![vehicle_id].violation_count = @ + 1],
          total |-> total + 1]
    ELSE [ret |-> FALSE, tracked_vehicles |-> tv, total |-> total]

\* lines 213-228 with the cumulative counter raised for an absent id too
mark_violation_counts_unknown(tv, total, vehicle_id, violation_type) ==
    IF vehicle_id \in DOMAIN tv /\ is_new_type(tv[vehicle_id], violation_type)
    THEN [ret |-> TRUE,
          tracked_vehicles |->
              [tv EXCEPT ![vehicle_id].violated_types = @ \cup {violation_type},
                         ![vehicle_id].violation_count = @ + 1,
                         ![vehicle_id].has_violated = TRUE],
          total |-> total + 1]
    ELSE [ret |-> FALSE, tracked_vehicles |-> tv,
          total |-> IF vehicle_id \in DOMAIN tv THEN total ELSE total + 1]

\* mark_violation(vehicle_id, violation_type) -> returned bool, new dict, new total
mark_violation(tv, total, vehicle_id, violation_type) ==
    IF vehicle_id \in DOMAIN tv /\ is_new_type(tv[vehicle_id], violation_type)
    THEN [ret |-> TRUE,
          tracked_vehicles |->
              [tv EXCEPT ![vehicle_id].violated_types = @ \cup {violation_type},
                         ![vehicle_id].violation_count = @ + 1,
                         ![vehicle_id].has_violated = TRUE],
          total |-> total + 1]
    ELSE [ret |-> FALSE, tracked_vehicles |-> tv, total |-> total]

\* update_license_plate(vehicle_id, plate)
update_license_plate(tv, vehicle_id, plate) ==
    IF vehicle_id \in DOMAIN tv
    THEN [tv EXCEPT ![vehicle_id].license_plate = Some(plate)]
    ELSE tv

\* the violation counts of the tracks in ids, added up
RECURSIVE sum_live_counts(_, _)
sum_live_counts(tv, ids) ==
    IF ids = {} THEN 0
    ELSE LET id == SetMin(ids)
         IN tv[id].violation_count + sum_live_counts(tv, ids \ {id})

\* lines 241-246 with the total taken from the tracks still in the store
get_stats_live_sum(tv, nid, total) ==
    [total_unique_vehicles |-> nid - 1,
     active_vehicles |-> Cardinality(DOMAIN tv),
     total_violations |-> sum_live_counts(tv, DOMAIN tv)]

\* get_stats()
get_stats(tv, nid, total) ==
    [total_unique_vehicles |-> nid - 1,
     active_vehicles |-> Cardinality(DOMAIN tv),
     total_violations |-> total]

----------------------------------------------------------------------------
(* RedLightSystem *)

\* set_stop_line(points): the average y of the first two points
set_stop_line(sly, points) ==
    IF Len(points) >= 2
    THEN Some((points[1][2] + points[2][2]) \div 2)
    ELSE sly

\* lines 29-46 without the cached box of line 46
detect_traffic_light_uncached(last, yolo) ==
    [bbox |-> yolo, last_detected_signal_bbox |-> IF yolo # None THEN yolo ELSE last]

\* detect_traffic_light_with_yolo: yolo is the box of the first traffic light
\* YOLO reports with confidence above 0.3, or None.  Returns the box handed
\* to the caller and the new cache.
detect_traffic_light_with_yolo(last, yolo) ==
    IF yolo # None
    THEN [bbox |-> yolo, last_detected_signal_bbox |-> yolo]
    ELSE [bbox |-> last, last_detected_signal_bbox |-> last]

\* lines 116-121 with the tests in the order green, yellow, red
dominant_colour_green_first(red_pixels, yellow_pixels, green_pixels) ==
    LET max_pixels == Max2(red_pixels, Max2(yellow_pixels, green_pixels))
    IN IF max_pixels < MIN_SIGNAL_PIXELS THEN "unknown"
       ELSE IF green_pixels = max_pixels THEN "green"
       ELSE IF yellow_pixels = max_pixels THEN "yellow"
       ELSE IF red_pixels = max_pixels THEN "red"
       ELSE "unknown"

\* lines 110-123 of detect_signal_state, on the three pixel counts
dominant_colour(red_pixels, yellow_pixels, green_pixels) ==
    LET max_pixels == Max2(red_pixels, Max2(yellow_pixels, green_pixels))
    IN IF max_pixels < MIN_SIGNAL_PIXELS THEN "unknown"
       ELSE IF red_pixels = max_pixels THEN "red"
       ELSE IF yellow_pixels = max_pixels THEN "yellow"
       ELSE IF green_pixels = max_pixels THEN "green"
       ELSE "unknown"

\* detect_signal_state: px is what the colour masks count in the region
detect_signal_state(px) ==
    IF px.roi_size = 0 THEN "unknown"
    ELSE dominant_colour(px.red, px.yellow, px.green)

\* line 144: the side of the stop line the box bottom is on
side_of_line(vehicle_bbox, line_y) ==
    IF vehicle_bbox[4] > line_y THEN "after" ELSE "before"

\* line 155 without the test of the signal state
crossed_on_any_signal(signal_state, previous_position, current_position) ==
    previous_position = "before" /\ current_position = "after"

\* line 155 never true
crossed_never(signal_state, previous_position, current_position) == FALSE

\* line 155: the red-light condition
crossed_on_red(signal_state, previous_position, current_position) ==
    signal_state = "red" /\ previous_position = "before" /\ current_position = "after"

\* line 143 reached before the test of line 139
raises_without_guard(sly, vehicle_bbox) == Len(vehicle_bbox) < 4

\* lines 139-143: vehicle_bbox[3] raises IndexError for a box of fewer than
\* four numbers, and is reached only with a stop line configured
check_violation_raises(sly, vehicle_bbox) == sly # None /\ Len(vehicle_bbox) < 4

\* line 158 reached under a red signal only: the side is stored when the
\* signal is red and left as it was otherwise
check_violation_store_on_red(positions, sly, vehicle_id, vehicle_bbox, signal_state) ==
    IF sly = None THEN [ret |-> FALSE, vehicle_positions |-> positions]
    ELSE LET current_position == side_of_line(vehicle_bbox, sly[1])
             previous_position == IF vehicle_id \in DOMAIN positions
                                  THEN positions[vehicle_id] ELSE "before"
         IN [ret |-> crossed_on_red(signal_state, previous_position, current_position),
             vehicle_positions |-> IF signal_state = "red"
                                   THEN DictSet(positions, vehicle_id, current_position)
                                   ELSE DictSet(positions, vehicle_id, previous_position)]

\* line 149 with the current side as the default for a track not stored
check_violation_unseen_in_place(positions, sly, vehicle_id, vehicle_bbox, signal_state) ==
    IF sly = None THEN [ret |-> FALSE, vehicle_positions |-> positions]
    ELSE LET current_position == side_of_line(vehicle_bbox, sly[1])
             previous_position == IF vehicle_id \in DOMAIN positions
                                  THEN positions[vehicle_id] ELSE current_position
         IN [ret |-> crossed_on_red(signal_state, previous_position, current_position),
             vehicle_positions |-> DictSet(positions, vehicle_id, current_position)]

\* check_violation(vehicle_id, vehicle_bbox, signal_state) -> bool, new positions
check_violation(positions, sly, vehicle_id, vehicle_bbox, signal_state) ==
    IF sly = None THEN [ret |-> FALSE, vehicle_positions |-> positions]
    ELSE LET current_position == side_of_line(vehicle_bbox, sly[1])
             previous_position == IF vehicle_id \in DOMAIN positions
                                  THEN positions[vehicle_id] ELSE "before"
         IN [ret |-> crossed_on_red(signal_state, previous_position, current_position),
             vehicle_positions |-> DictSet(positions, vehicle_id, current_position)]

\* cleanup_old_vehicles(active_vehicle_ids)
cleanup_old_vehicles(positions, active_vehicle_ids) ==
    [vid \in (DOMAIN positions) \cap active_vehicle_ids |-> positions[vid]]

----------------------------------------------------------------------------
(* Session worker: process_video_stream (sockets.py:109-468)               *)
(*                                                                         *)
(* pending_violations is an insertion-ordered dict: a sequence of entries, *)
(* each carrying its key vehicle_id.  A plate text is a record: the        *)
(* default f"ID-{vehicle_id}" is [kind "id", n vehicle_id], an OCR text is *)
(* [kind "ocr", text <characters>].                                        *)

IdPlate(vehicle_id) == [kind |-> "id", n |-> vehicle_id, text |-> <<>>]
OcrPlate(text) == [kind |-> "ocr", n |-> 0, text |-> text]
NA == <<"N", "/", "A">>
\* a plate string is truthy unless it is empty
PlateTruthy(p) == p.kind = "id" \/ p.text # <<>>

PendingKeys(p) == [i \in 1..Len(p) |-> p[i].vehicle_id]
PendingHas(p, vid) == \E i \in 1..Len(p) : p[i].vehicle_id = vid
PendingGet(p, vid) == p[CHOOSE i \in 1..Len(p) : p[i].vehicle_id = vid]
\* pending_violations[vid] = entry: an existing key keeps its place
PendingSet(p, vid, entry) ==
    IF PendingHas(p, vid)
    THEN [i \in 1..Len(p) |-> IF p[i].vehicle_id = vid THEN entry ELSE p[i]]
    ELSE Append(p, entry)
\* del pending_violations[vid]
PendingDel(p, vid) == SelectSeq(p, LAMBDA e : e.vehicle_id # vid)

\* frame size of the video and the metadata frame count
FRAME_W == 400
FRAME_H == 800

\* the dict plate_cache is created empty and never written (line 174)
plate_cache == <<>>

\* line 220: the OCR text is usable
plate_ok(text) == text # <<>> /\ Len(text) >= 3 /\ text # NA

\* lines 238-249: pending_violations[vehicle_id] = {...}
queue_pending(p, vid, entry) == PendingSet(p, vid, entry)

\* process_violation_event(vehicle_id, violation_type, bbox, signal_state, cls_name)
\* S is the state of the worker, ocr what anpr.extract_text does on the crop,
\* fidx the current frame_idx, f the fps of the video.
process_violation_event(S, vehicle_id, violation_type, bbox, signal_state, cls_name, ocr, fidx, f) ==
    LET m == mark_violation(S.tracked_vehicles, S.total, vehicle_id, violation_type)
    IN IF ~m.ret THEN S
       ELSE LET x1 == Max2(0, bbox[1])
                y1 == Max2(0, bbox[2])
                x2 == Min2(FRAME_W, bbox[3])
                y2 == Min2(FRAME_H, bbox[4])
                cached == vehicle_id \in DOMAIN plate_cache
                scanned == ~cached /\ x2 > x1 /\ y2 > y1
                           /\ ~ocr.raised /\ plate_ok(ocr.text)
                plate_text == IF cached THEN plate_cache[vehicle_id].plate_text
                              ELSE IF scanned THEN OcrPlate(ocr.text)
                              ELSE IdPlate(vehicle_id)
                tv == IF scanned
                      THEN update_license_plate(m.tracked_vehicles, vehicle_id, plate_text)
                      ELSE m.tracked_vehicles
                entry == [vehicle_id |-> vehicle_id,
                          detected_frame |-> fidx,
                          vehicle_type |-> cls_name,
                          plate_text |-> plate_text,
                          signal_state |-> signal_state,
                          violation_type |-> violation_type,
                          bbox |-> bbox,
                          image_path |-> <<vehicle_id, fidx>>,
                          video_fps |-> f]
            IN [S EXCEPT !.tracked_vehicles = tv,
                         !.total = m.total,
                         !.pending = queue_pending(@, vehicle_id, entry),
                         !.events = Append(@, [vehicle_id |-> vehicle_id,
                                               violation_type |-> violation_type,
                                               detected_frame |-> fidx])]

\* round(final_speed, 1): to the nearest 0.1 km/h
Round1(speed) == ((speed + (SpeedScale \div 20)) \div (SpeedScale \div 10)) * (SpeedScale \div 10)

\* lines 311-312 / 401-402 with the plate of the pending entry always
final_plate_snapshot(tv, vid, pending) == pending.plate_text

\* lines 311-312 / 401-402: the tracked plate if the track has one
final_plate_of(tv, vid, pending) ==
    LET tracked_plate == IF vid \in DOMAIN tv THEN tv[vid].license_plate ELSE None
    IN IF tracked_plate # None /\ PlateTruthy(tracked_plate[1])
       THEN tracked_plate[1] ELSE pending.plate_text

\* lines 324-336 / 405-417: the Violation row
violation_row(pending, final_plate, final_speed) ==
    [violation_type |-> pending.violation_type,
     vehicle_type |-> pending.vehicle_type,
     license_plate |-> final_plate,
     speed_kmh |-> Round1(final_speed),
     signal_state |-> pending.signal_state,
     image_path |-> pending.image_path,
     frame_number |-> pending.detected_frame,
     video_fps |-> pending.video_fps]

\* lines 317-320 with the comparison turned round
is_valid_violation_flipped(violation_type, final_speed) ==
    ~(violation_type = Speeding /\ final_speed > SPEED_LIMIT * SpeedScale)

\* lines 317-320: a speeding entry is kept only if the final speed is above the limit
is_valid_violation(violation_type, final_speed) ==
    ~(violation_type = Speeding /\ final_speed <= SPEED_LIMIT * SpeedScale)

\* lines 322-342 with a second attempt after a failed commit
persist_retry(S, pending, final_plate, final_speed, commit_ok, phase, fidx) ==
    LET res(outcome) == [vehicle_id |-> pending.vehicle_id,
                         violation_type |-> pending.violation_type,
                         detected_frame |-> pending.detected_frame,
                         phase |-> phase, frame |-> fidx,
                         final_speed |-> final_speed, outcome |-> outcome]
    IN [S EXCEPT !.db = Append(@, violation_row(pending, final_plate, final_speed)),
                 !.resolutions = IF commit_ok THEN Append(@, res("saved"))
                                 ELSE Append(Append(@, res("failed")), res("saved"))]

\* lines 322-342 / 404-423: the try block; commit_ok is whether the commit succeeds
persist(S, pending, final_plate, final_speed, commit_ok, phase, fidx) ==
    [S EXCEPT !.db = IF commit_ok
                     THEN Append(@, violation_row(pending, final_plate, final_speed))
                     ELSE @,
              !.resolutions = Append(@,
                  [vehicle_id |-> pending.vehicle_id,
                   violation_type |-> pending.violation_type,
                   detected_frame |-> pending.detected_frame,
                   phase |-> phase, frame |-> fidx,
                   final_speed |-> final_speed,
                   outcome |-> IF commit_ok THEN "saved" ELSE "failed"])]

\* line 344 skipped: the entry stays queued
drop_pending_skip(p, vid) == p

\* line 344: del pending_violations[vid]
drop_pending(p, vid) == PendingDel(p, vid)

\* line 308: the entry has waited long enough
is_ready(fidx, pending) == fidx - pending.detected_frame >= CONFIRM_FRAMES

\* lines 305-344: one pending entry, at frame fidx
resolve_one(S, vid, fidx, f, failing) ==
    LET pending == PendingGet(S.pending, vid)
    IN IF ~is_ready(fidx, pending) THEN S
       ELSE LET cs == calculate_speed(S.tracked_vehicles, vid, f, PIXELS_PER_METER)
            IN IF cs.raised THEN [S EXCEPT !.raised = TRUE]
               ELSE LET S1 == [S EXCEPT !.tracked_vehicles = cs.tracked_vehicles]
                        final_plate == final_plate_of(S1.tracked_vehicles, vid, pending)
                        S2 == IF is_valid_violation(pending.violation_type, cs.speed)
                              THEN persist(S1, pending, final_plate, cs.speed,
                                           vid \notin failing, "threshold", fidx)
                              ELSE [S1 EXCEPT !.resolutions = Append(@,
                                      [vehicle_id |-> vid,
                                       violation_type |-> pending.violation_type,
                                       detected_frame |-> pending.detected_frame,
                                       phase |-> "threshold", frame |-> fidx,
                                       final_speed |-> cs.speed,
                                       outcome |-> "discarded"])]
                    IN [S2 EXCEPT !.pending = drop_pending(@, vid)]

\* lines 304-344: for vid in list(pending_violations.keys())
RECURSIVE resolve_pending(_, _, _, _, _, _)
resolve_pending(S, keys, i, fidx, f, failing) ==
    IF i > Len(keys) \/ S.raised THEN S
    ELSE resolve_pending(resolve_one(S, keys[i], fidx, f, failing),
                         keys, i + 1, fidx, f, failing)

\* lines 283-344: the body of the loop over the tracked vehicles
process_vehicle(S, vehicle, signal_state, ocr, fidx, f, failing) ==
    LET cs == calculate_speed(S.tracked_vehicles, vehicle.id, f, PIXELS_PER_METER)
    IN IF cs.raised THEN [S EXCEPT !.raised = TRUE]
       ELSE
       LET S1 == [S EXCEPT !.tracked_vehicles = cs.tracked_vehicles]
           cv == check_violation(S1.vehicle_positions, S1.stop_line_y, vehicle.id,
                                 vehicle.bbox, signal_state)
           S2 == [S1 EXCEPT !.vehicle_positions = cv.vehicle_positions]
           S3 == IF cv.ret
                 THEN process_violation_event(S2, vehicle.id, RedLight, vehicle.bbox,
                                              signal_state, vehicle.class_name, ocr, fidx, f)
                 ELSE S2
           S4 == IF cs.speed > SPEED_LIMIT * SpeedScale
                 THEN process_violation_event(S3, vehicle.id, Speeding, vehicle.bbox,
                                              signal_state, vehicle.class_name, ocr, fidx, f)
                 ELSE S3
       IN resolve_pending(S4, PendingKeys(S4.pending), 1, fidx, f, failing)

\* line 283: for vehicle in tracked_vehicles
RECURSIVE process_vehicles(_, _, _, _, _, _, _, _)
process_vehicles(S, tracked, i, signal_state, ocrs, fidx, f, failing) ==
    IF i > Len(tracked) \/ S.raised THEN S
    ELSE process_vehicles(
             process_vehicle(S, tracked[i], signal_state, ocrs[i], fidx, f, failing),
             tracked, i + 1, signal_state, ocrs, fidx, f, failing)

\* lines 268-274: the signal state of the frame
frame_signal_state(traffic_light_bbox, px) ==
    IF traffic_light_bbox # None THEN detect_signal_state(px) ELSE "unknown"

\* lines 261-391: one iteration of the while loop, after a successful read.
\* inp: yolo (traffic-light box or None), px (pixel counts of the signal
\* region), dets (the detector's list), ocrs (the OCR result per detection),
\* failing (the vehicle ids whose commit fails).
process_frame(S, inp, fidx, f) ==
    LET tl == detect_traffic_light_with_yolo(S.last_detected_signal_bbox, inp.yolo)
        signal_state == frame_signal_state(tl.bbox, inp.px)
        u == update(S.tracked_vehicles, S.next_id, S.iou_threshold,
                    S.max_missing_frames, inp.dets, fidx)
        S1 == [S EXCEPT !.last_detected_signal_bbox = tl.last_detected_signal_bbox,
                        !.tracked_vehicles = u.tracked_vehicles,
                        !.next_id = u.next_id,
                        !.created = @ \o u.allocated]
    IN process_vehicles(S1, u.tracked_detections, 1, signal_state, inp.ocrs,
                        fidx, f, inp.failing)

\* lines 404-423: the flush loop saves every entry, whatever its type and speed
flush_keeps(violation_type, final_speed) == TRUE

\* lines 398-423: one entry of the flush loop
flush_one(S, vid, fidx, f, failing) ==
    LET pending == PendingGet(S.pending, vid)
        cs == calculate_speed(S.tracked_vehicles, vid, f, FLUSH_PPM)
    IN IF cs.raised THEN [S EXCEPT !.raised = TRUE]
       ELSE LET S1 == [S EXCEPT !.tracked_vehicles = cs.tracked_vehicles]
                final_plate == final_plate_of(S1.tracked_vehicles, vid, pending)
            IN IF flush_keeps(pending.violation_type, cs.speed)
               THEN persist(S1, pending, final_plate, cs.speed,
                            vid \notin failing, "flush", fidx)
               ELSE S1

\* lines 397-423: for vid in list(pending_violations.keys())
RECURSIVE flush_pending(_, _, _, _, _, _)
flush_pending(S, keys, i, fidx, f, failing) ==
    IF i > Len(keys) \/ S.raised THEN S
    ELSE flush_pending(flush_one(S, keys[i], fidx, f, failing),
                       keys, i + 1, fidx, f, failing)

----------------------------------------------------------------------------
(* Bounds and input alphabets of the session *)

\* frames the video source can deliver
MaxFrames == 7

VIDEO == "uploads/a.mp4"
ROOM == "room-a"
\* the stop line of the ROI configuration
STOP_LINE_POINTS == <<<<0, 175>>, <<FRAME_W, 175>>>>
\* fps reported by the video
VIDEO_FPS == 30
\* the box YOLO reports for the traffic light
TL_BOX == <<300, 0, 320, 40>>
\* pixels a tracked vehicle moves down between two frames: none, or a step
\* that keeps the IoU at 1/3 and reads as 67.5 km/h over two frames
Moves == {0, 50}
\* where a vehicle is first detected: before and beyond the stop line
EntryYs == {0, 100}

VehicleBox(y) == <<100, y, 200, y + 100>>
Det(bbox, cls) == [bbox |-> bbox, class_name |-> cls, confidence |-> 90]

\* the track updated last (highest id among the most recent)
LatestTrack(tv) ==
    CHOOSE id \in DOMAIN tv :
        \A o \in DOMAIN tv : tv[o].last_frame < tv[id].last_frame
                             \/ (tv[o].last_frame = tv[id].last_frame /\ o <= id)

\* what the detector may report in a frame: nothing; a vehicle entering an
\* empty scene; or the vehicle seen last, moved down by one of Moves
SessionDets(tv) ==
    {<<>>}
    \cup (IF DOMAIN tv = {}
          THEN {<<Det(VehicleBox(y), "car")>> : y \in EntryYs}
          ELSE LET y == tv[LatestTrack(tv)].bbox[2]
               IN {<<Det(VehicleBox(y + m), "car")>> :
                      m \in {n \in Moves : y + n + 100 <= FRAME_H}})

\* what the colour masks count in the signal region
PxInputs == {[roi_size |-> 3000, red |-> 120, yellow |-> 0, green |-> 0],
             [roi_size |-> 3000, red |-> 0, yellow |-> 0, green |-> 120]}
YoloInputs == {None, Some(TL_BOX)}
\* what anpr.extract_text returns for a vehicle crop
OcrOutcomes == {[raised |-> FALSE, text |-> NA],
                [raised |-> FALSE, text |-> <<"K", "J", "A", "7">>]}

ReadyVids(p, fidx) == {p[i].vehicle_id : i \in {j \in 1..Len(p) : is_ready(fidx, p[j])}}
AllVids(p) == {p[i].vehicle_id : i \in 1..Len(p)}

----------------------------------------------------------------------------
(* Session worker: state and actions *)

WorkerState ==
    [tracked_vehicles |-> tracked_vehicles, next_id |-> next_id,
     total |-> total_violations_cumulative, iou_threshold |-> iou_threshold,
     max_missing_frames |-> max_missing_frames, stop_line_y |-> stop_line_y,
     last_detected_signal_bbox |-> last_detected_signal_bbox,
     vehicle_positions |-> vehicle_positions, pending |-> pending_violations,
     db |-> db_violations, created |-> created, events |-> events,
     resolutions |-> resolutions, raised |-> FALSE]

SetWorkerState(R) ==
    /\ tracked_vehicles' = R.tracked_vehicles
    /\ next_id' = R.next_id
    /\ total_violations_cumulative' = R.total
    /\ last_detected_signal_bbox' = R.last_detected_signal_bbox
    /\ vehicle_positions' = R.vehicle_positions
    /\ pending_violations' = R.pending
    /\ db_violations' = R.db
    /\ created' = R.created
    /\ events' = R.events
    /\ resolutions' = R.resolutions

\* line 254: the stop flag of the registry entry of this video
stop_requested(sessions, video_path) ==
    video_path \in DOMAIN sessions /\ sessions[video_path].stop

\* line 374: progress in percent
progress_of(fidx, total_frames) ==
    IF total_frames > 0 THEN ((fidx + 1) * 100) \div total_frames ELSE 0

\* lines 388-389: progress is written if the entry exists
set_progress(sessions, video_path, progress) ==
    IF video_path \in DOMAIN sessions
    THEN [sessions EXCEPT ![video_path].progress = progress]
    ELSE sessions

\* state after VehicleTracker(iou_threshold=0.3, max_missing_frames=10),
\* RedLightSystem(), set_stop_line and the locals of lines 172-174, for a
\* session that handle_start_processing registered
InitSession ==
    /\ next_id = 1
    /\ tracked_vehicles = <<>>
    /\ iou_threshold = [num |-> 3, den |-> 10]
    /\ max_missing_frames = 10
    /\ total_violations_cumulative = 0
    /\ twin = None
    /\ stop_line_y = set_stop_line(None, STOP_LINE_POINTS)
    /\ last_detected_signal_bbox = None
    /\ vehicle_positions = <<>>
    /\ pc = "loop"
    /\ frame_idx = 0
    /\ fps = VIDEO_FPS
    /\ pending_violations = <<>>
    /\ db_violations = <<>>
    /\ active_video_sessions =
         [p \in {VIDEO} |-> [room_id |-> ROOM, stop |-> FALSE, progress |-> 0]]
    /\ processing_sessions = <<>>
    /\ handler = <<>>
    /\ worker = <<>>
    /\ created = <<>>
    /\ last_call = [op |-> "none"]
    /\ events = <<>>
    /\ resolutions = <<>>
    /\ termination = "running"

\* lines 253-255 with the break turned into a return past the flush loop
ObserveStopSkipFlush ==
    /\ pc = "loop"
    /\ stop_requested(active_video_sessions, VIDEO)
    /\ pc' = "finally"
    /\ termination' = "stop"
    /\ UNCHANGED <<trackerVars, redLightVars, frame_idx, fps, pending_violations,
                   db_violations, registryVars, created, last_call, events, resolutions>>

\* lines 253-255: the stop flag is seen at the frame boundary
ObserveStop ==
    /\ pc = "loop"
    /\ stop_requested(active_video_sessions, VIDEO)
    /\ pc' = "flush"
    /\ termination' = "stop"
    /\ UNCHANGED <<trackerVars, redLightVars, frame_idx, fps, pending_violations,
                   db_violations, registryVars, created, last_call, events, resolutions>>

\* lines 253, 257-259: the source is closed or delivers no frame
SourceExhausted ==
    /\ pc = "loop"
    /\ ~stop_requested(active_video_sessions, VIDEO)
    /\ pc' = "flush"
    /\ termination' = "exhausted"
    /\ UNCHANGED <<trackerVars, redLightVars, frame_idx, fps, pending_violations,
                   db_violations, registryVars, created, last_call, events, resolutions>>

\* lines 257-391: a frame is read and goes through the whole pipeline
ProcessFrame ==
    /\ pc = "loop"
    /\ ~stop_requested(active_video_sessions, VIDEO)
    /\ frame_idx < MaxFrames
    /\ \E dets \in SessionDets(tracked_vehicles), yolo \in YoloInputs, px \in PxInputs :
       \E ocrs \in [1..Len(dets) -> OcrOutcomes],
          failing \in SUBSET ReadyVids(pending_violations, frame_idx) :
         LET R == process_frame(WorkerState,
                                [yolo |-> yolo, px |-> px, dets |-> dets,
                                 ocrs |-> ocrs, failing |-> failing],
                                frame_idx, fps)
         IN /\ SetWorkerState(R)
            /\ IF R.raised
               THEN /\ pc' = "failed"
                    /\ termination' = "exception"
                    /\ UNCHANGED <<frame_idx, active_video_sessions>>
               ELSE /\ pc' = "loop"
                    /\ frame_idx' = frame_idx + 1
                    /\ active_video_sessions' =
                         set_progress(active_video_sessions, VIDEO,
                                      progress_of(frame_idx, MaxFrames))
                    /\ UNCHANGED termination
    /\ UNCHANGED <<iou_threshold, max_missing_frames, twin, stop_line_y, fps,
                   processing_sessions, handler, worker, last_call>>

\* lines 257-391, 462-465: a collaborator called for the frame (detector,
\* OpenCV, socket emit) raises; control goes to the except clause
FrameException ==
    /\ pc = "loop"
    /\ ~stop_requested(active_video_sessions, VIDEO)
    /\ frame_idx < MaxFrames
    /\ pc' = "failed"
    /\ termination' = "exception"
    /\ UNCHANGED <<trackerVars, redLightVars, frame_idx, fps, pending_violations,
                   db_violations, registryVars, created, last_call, events, resolutions>>

\* lines 395-460: the flush loop and the end of the try block
Flush ==
    /\ pc = "flush"
    /\ \E failing \in SUBSET AllVids(pending_violations) :
         LET R == flush_pending(WorkerState, PendingKeys(pending_violations), 1,
                                frame_idx, fps, failing)
         IN /\ SetWorkerState(R)
            /\ pc' = IF R.raised THEN "failed" ELSE "finally"
    /\ UNCHANGED <<iou_threshold, max_missing_frames, twin, stop_line_y, frame_idx, fps,
                   registryVars, last_call, termination>>

\* lines 467-468 without the del
unregister_keeps_entry(sessions, video_path) == sessions

\* lines 467-468: del active_video_sessions[video_path] if it is there
unregister(sessions, video_path) ==
    IF video_path \in DOMAIN sessions THEN DictDel(sessions, video_path) ELSE sessions

\* lines 462-468: the except and finally clauses
Finally ==
    /\ pc \in {"finally", "failed"}
    /\ active_video_sessions' = unregister(active_video_sessions, VIDEO)
    /\ pc' = "done"
    /\ UNCHANGED <<trackerVars, redLightVars, frame_idx, fps, pending_violations,
                   db_violations, processing_sessions, handler, worker, obsVars>>

\* the cooperative stop signal: the 'stop' field of the entry is set
RequestStop ==
    /\ pc = "loop"
    /\ VIDEO \in DOMAIN active_video_sessions
    /\ ~active_video_sessions[VIDEO].stop
    /\ active_video_sessions' = [active_video_sessions EXCEPT ![VIDEO].stop = TRUE]
    /\ UNCHANGED <<trackerVars, redLightVars, sessionVars, processing_sessions,
                   handler, worker, obsVars>>

NextSession ==
    \/ ObserveStop
    \/ SourceExhausted
    \/ ProcessFrame
    \/ FrameException
    \/ Flush
    \/ Finally
    \/ RequestStop

Spec == InitSession /\ [][NextSession]_vars

----------------------------------------------------------------------------
(* Session registry: handle_start_processing (sockets.py:50-106) and the   *)
(* registry accesses of the worker it starts (lines 253-255, 388-389,      *)
(* 466-468).  Every start_processing event runs in a thread of its own, so *)
(* the handler is a sequence of steps that other threads interleave with.  *)
(* Request r starts worker r.  All requests name the video VIDEO.  What a  *)
(* worker does to a frame is left out here: it touches no registry state   *)
(* but the progress field.  events is the log of the registry accesses:    *)
(* the lookup of a handler and its outcome, the registration of a handler, *)
(* and the finally clause of a worker with whether it found an entry.      *)

\* start_processing events in a run
MaxRequests == 2
\* frames a worker of the registry model processes
MaxWorkerFrames == 2

Requests == 1..MaxRequests

InitRegistry ==
    /\ next_id = 1
    /\ tracked_vehicles = <<>>
    /\ iou_threshold = [num |-> 3, den |-> 10]
    /\ max_missing_frames = 10
    /\ total_violations_cumulative = 0
    /\ twin = None
    /\ stop_line_y = None
    /\ last_detected_signal_bbox = None
    /\ vehicle_positions = <<>>
    /\ pc = "idle"
    /\ frame_idx = 0
    /\ fps = VIDEO_FPS
    /\ pending_violations = <<>>
    /\ db_violations = <<>>
    /\ active_video_sessions = [p \in {} |-> [room_id |-> ROOM, stop |-> FALSE, progress |-> 0]]
    /\ processing_sessions = <<>>
    /\ handler = [r \in Requests |-> [pc |-> "idle", reply |-> "none"]]
    /\ worker = [r \in Requests |-> [pc |-> "none", frames |-> 0]]
    /\ created = <<>>
    /\ last_call = [op |-> "none"]
    /\ events = <<>>
    /\ resolutions = <<>>
    /\ termination = "running"

\* lines 77-79: a session of this video is registered and not stopped
session_active(sessions, video_path) ==
    video_path \in DOMAIN sessions /\ ~sessions[video_path].stop

\* lines 88-92: the entry of a new session
new_session(room_id) == [room_id |-> room_id, stop |-> FALSE, progress |-> 0]

\* lines 55-85: the path is validated, the room joined and the registry looked up
HandlerCheck(r) ==
    /\ handler[r].pc = "idle"
    /\ \E file_exists \in BOOLEAN :
         LET outcome == IF ~file_exists THEN "error"
                        ELSE IF session_active(active_video_sessions, VIDEO)
                             THEN "resume_session" ELSE "new_session"
         IN /\ handler' = [handler EXCEPT ![r] =
                  IF outcome = "new_session" THEN [pc |-> "checked", reply |-> "none"]
                  ELSE [pc |-> "done", reply |-> outcome]]
            /\ events' = Append(events, [op |-> "lookup", request |-> r,
                                         outcome |-> outcome])
    /\ UNCHANGED <<trackerVars, redLightVars, sessionVars, active_video_sessions,
                   processing_sessions, worker, created, last_call, resolutions,
                   termination>>

\* lines 87-92: the new session is registered
HandlerRegister(r) ==
    /\ handler[r].pc = "checked"
    /\ active_video_sessions' = DictSet(active_video_sessions, VIDEO, new_session(ROOM))
    /\ handler' = [handler EXCEPT ![r].pc = "registered"]
    /\ events' = Append(events, [op |-> "register", request |-> r,
                                 outcome |-> "registered"])
    /\ UNCHANGED <<trackerVars, redLightVars, sessionVars, processing_sessions,
                   worker, created, last_call, resolutions, termination>>

\* lines 94-106: the worker thread is started and the client answered
HandlerSpawn(r) ==
    /\ handler[r].pc = "registered"
    /\ worker' = [worker EXCEPT ![r].pc = "loop"]
    /\ handler' = [handler EXCEPT ![r] = [pc |-> "done", reply |-> "processing_started"]]
    /\ UNCHANGED <<trackerVars, redLightVars, sessionVars, active_video_sessions,
                   processing_sessions, obsVars>>

\* lines 253-391: the worker passes the stop test, processes a frame and
\* writes its progress into the entry of its video path
WorkerFrame(r) ==
    /\ worker[r].pc = "loop"
    /\ ~stop_requested(active_video_sessions, VIDEO)
    /\ worker[r].frames < MaxWorkerFrames
    /\ active_video_sessions' =
         set_progress(active_video_sessions, VIDEO,
                      progress_of(worker[r].frames, MaxWorkerFrames))
    /\ worker' = [worker EXCEPT ![r].frames = @ + 1]
    /\ UNCHANGED <<trackerVars, redLightVars, sessionVars, processing_sessions,
                   handler, obsVars>>

\* lines 253-259, 395-465: the loop ends (stop seen, source exhausted or an
\* exception) and the worker runs on to its finally clause
WorkerLeaveLoop(r) ==
    /\ worker[r].pc = "loop"
    /\ worker' = [worker EXCEPT ![r].pc = "finally"]
    /\ UNCHANGED <<trackerVars, redLightVars, sessionVars, active_video_sessions,
                   processing_sessions, handler, obsVars>>

\* lines 466-468: the finally clause
WorkerFinally(r) ==
    /\ worker[r].pc = "finally"
    /\ active_video_sessions' = unregister(active_video_sessions, VIDEO)
    /\ worker' = [worker EXCEPT ![r].pc = "done"]
    /\ events' = Append(events, [op |-> "finally", request |-> r,
                                 outcome |-> IF VIDEO \in DOMAIN active_video_sessions
                                             THEN "removed" ELSE "absent"])
    /\ UNCHANGED <<trackerVars, redLightVars, sessionVars, processing_sessions,
                   handler, created, last_call, resolutions, termination>>

\* the cooperative stop signal: the 'stop' field of the entry is set
RegistryRequestStop ==
    /\ VIDEO \in DOMAIN active_video_sessions
    /\ ~active_video_sessions[VIDEO].stop
    /\ active_video_sessions' = [active_video_sessions EXCEPT ![VIDEO].stop = TRUE]
    /\ UNCHANGED <<trackerVars, redLightVars, sessionVars, processing_sessions,
                   handler, worker, obsVars>>

NextRegistry ==
    \/ \E r \in Requests : HandlerCheck(r)
    \/ \E r \in Requests : HandlerRegister(r)
    \/ \E r \in Requests : HandlerSpawn(r)
    \/ \E r \in Requests : WorkerFrame(r)
    \/ \E r \in Requests : WorkerLeaveLoop(r)
    \/ \E r \in Requests : WorkerFinally(r)
    \/ RegistryRequestStop

SpecRegistry == InitRegistry /\ [][NextRegistry]_vars

\* C9: while a session of the video is registered and not stopped, at most
\* one worker runs for it, and a request that finds such a session starts
\* no worker.
C9_OneWorkerPerVideo ==
    session_active(active_video_sessions, VIDEO) =>
        Cardinality({r \in Requests : worker[r].pc = "loop"}) <= 1

\* C36: the finally clause of a terminating worker, whatever ended its
\* loop, leaves the registry with no entry for its video path; a lookup
\* that finds no entry never answers resume_session, so a start_processing
\* that arrives after a worker terminated, with no registration in
\* between, goes on to register a new session and start a new worker.
C36_Step ==
    /\ \A r \in Requests :
          (worker[r].pc = "finally" /\ worker'[r].pc = "done")
              => VIDEO \notin DOMAIN active_video_sessions'
    /\ \A r \in Requests :
          (/\ handler[r].pc = "idle" /\ handler'[r].pc # "idle"
           /\ VIDEO \notin DOMAIN active_video_sessions)
              => handler'[r].reply # "resume_session"
    /\ \A k \in 1..Len(events') :
          (events'[k].op = "lookup" /\ events'[k].outcome = "resume_session") =>
              \E j \in 1..(k - 1) :
                  /\ events'[j].op = "register"
                  /\ \A i \in (j + 1)..(k - 1) : events'[i].op # "finally"
C36_TerminationUnregisters == [][C36_Step]_vars

\* worker 1 terminated and removed its entry; request 2 looked the path up
\* afterwards, found no session, registered one and its worker runs
C36_Witness ==
    \E i, j \in 1..Len(events) :
        /\ i < j
        /\ events[i] = [op |-> "finally", request |-> 1, outcome |-> "removed"]
        /\ events[j] = [op |-> "lookup", request |-> 2, outcome |-> "new_session"]
        /\ \A k \in 1..(i - 1) : events[k].request = 1
        /\ handler[2].reply = "processing_started"
        /\ worker[1].pc = "done"
        /\ worker[2].pc = "loop"
        /\ VIDEO \in DOMAIN active_video_sessions

\* C37: a worker's finally clause removes only the entry its own
\* start_processing registered: whenever a finally clause removed an entry,
\* the latest registration before it was made for that worker.
C37_RemovesOwnEntryOnly ==
    \A k \in 1..Len(events) :
        (events[k].op = "finally" /\ events[k].outcome = "removed") =>
            LET regs == {j \in 1..(k - 1) : events[j].op = "register"}
            IN /\ regs # {}
               /\ \A j \in regs :
                     (\A i \in regs : i <= j) => events[j].request = events[k].request

----------------------------------------------------------------------------
(* The registry with the operations the code has (specification            *)
(* SpecDisconnect): the handlers and workers of the registry model and the *)
(* disconnect handler (sockets.py:42-47).  The client of request r has     *)
(* sid r.  No operation of sockets.py assigns True to the 'stop' field of  *)
(* an entry of active_video_sessions, so this specification has no stop    *)
(* request.  last_call is the last disconnect: the sid and whether the     *)
(* worker of that client was in its loop with frames left.                 *)

\* lines 46-47 with the video registry in place of processing_sessions
handle_disconnect_stops_video(psessions, vsessions, sid) ==
    [processing_sessions |-> psessions,
     active_video_sessions |->
         [p \in DOMAIN vsessions |-> [vsessions[p] EXCEPT !.stop = TRUE]]]

\* lines 46-47: the stop flag of the sid's entry of processing_sessions
handle_disconnect(psessions, vsessions, sid) ==
    [processing_sessions |->
         IF sid \in DOMAIN psessions
         THEN [psessions EXCEPT ![sid].stop = TRUE]
         ELSE psessions,
     active_video_sessions |-> vsessions]

\* a client disconnects
Disconnect(sid) ==
    /\ LET d == handle_disconnect(processing_sessions, active_video_sessions, sid)
       IN /\ processing_sessions' = d.processing_sessions
          /\ active_video_sessions' = d.active_video_sessions
    /\ last_call' = [op |-> "disconnect", sid |-> sid,
                     running |-> worker[sid].pc = "loop"
                                 /\ worker[sid].frames < MaxWorkerFrames]
    /\ UNCHANGED <<trackerVars, redLightVars, sessionVars, handler, worker,
                   created, events, resolutions, termination>>

NextDisconnect ==
    \/ \E r \in Requests : HandlerCheck(r)
    \/ \E r \in Requests : HandlerRegister(r)
    \/ \E r \in Requests : HandlerSpawn(r)
    \/ \E r \in Requests : WorkerFrame(r)
    \/ \E r \in Requests : WorkerLeaveLoop(r)
    \/ \E r \in Requests : WorkerFinally(r)
    \/ \E sid \in Requests : Disconnect(sid)

SpecDisconnect == InitRegistry /\ [][NextDisconnect]_vars

\* C38: a client disconnect changes no entry of active_video_sessions and
\* no worker: processing_sessions, the only dict it writes to, stays empty,
\* no entry of the video registry ever carries a set stop flag, and so the
\* stop test of a running worker never ends its loop.
C38_Step ==
    /\ last_call' # last_call =>
          /\ last_call'.op = "disconnect"
          /\ active_video_sessions' = active_video_sessions
          /\ worker' = worker
    /\ processing_sessions' = <<>>
    /\ \A p \in DOMAIN active_video_sessions' : ~active_video_sessions'[p].stop
    /\ ~stop_requested(active_video_sessions', VIDEO)
C38_DisconnectStopsNothing == [][C38_Step]_vars

\* the client of a request disconnected while its worker was in the loop
\* with frames left, and the worker went on to process every frame
C38_Witness ==
    /\ last_call.op = "disconnect"
    /\ last_call.running
    /\ worker[last_call.sid].frames = MaxWorkerFrames
    /\ worker[last_call.sid].pc = "done"

----------------------------------------------------------------------------
(* A VehicleTracker driven by update calls alone (specification            *)
(* SpecTracker): any sequence of frames over a small alphabet.             *)

\* update calls in a run
MaxUpdates == 4
\* max_missing_frames the tracker under test is constructed with
TrackerMaxMissing == 1

\* two overlapping boxes (IoU 1/3) and one apart from both
BoxA == <<0, 0, 100, 100>>
BoxB == <<0, 50, 100, 150>>
BoxC == <<200, 0, 300, 100>>
TrackerDets == {Det(BoxA, "car"), Det(BoxB, "car"), Det(BoxC, "truck")}
\* the frames: at most two detections, in either order
TrackerFrames ==
    {<<>>} \cup {<<d>> : d \in TrackerDets}
           \cup {<<d, e>> : d \in TrackerDets, e \in TrackerDets}

\* state after VehicleTracker(max_missing_frames=TrackerMaxMissing)
InitTracker ==
    /\ next_id = 1
    /\ tracked_vehicles = <<>>
    /\ iou_threshold = [num |-> 3, den |-> 10]
    /\ max_missing_frames = TrackerMaxMissing
    /\ total_violations_cumulative = 0
    /\ twin = None
    /\ stop_line_y = None
    /\ last_detected_signal_bbox = None
    /\ vehicle_positions = <<>>
    /\ pc = "idle"
    /\ frame_idx = 0
    /\ fps = VIDEO_FPS
    /\ pending_violations = <<>>
    /\ db_violations = <<>>
    /\ active_video_sessions = <<>>
    /\ processing_sessions = <<>>
    /\ handler = <<>>
    /\ worker = <<>>
    /\ created = <<>>
    /\ last_call = [op |-> "none"]
    /\ events = <<>>
    /\ resolutions = <<>>
    /\ termination = "running"

\* tracker.update(detections, frame_idx), called with consecutive frame indices
TrackerUpdate ==
    /\ frame_idx < MaxUpdates
    /\ \E dets \in TrackerFrames :
         LET u == update(tracked_vehicles, next_id, iou_threshold,
                         max_missing_frames, dets, frame_idx)
         IN /\ tracked_vehicles' = u.tracked_vehicles
            /\ next_id' = u.next_id
            /\ created' = created \o u.allocated
            /\ last_call' = [op |-> "update", detections |-> dets,
                             ret |-> u.tracked_detections, matched |-> u.matched]
    /\ frame_idx' = frame_idx + 1
    /\ UNCHANGED <<iou_threshold, max_missing_frames, total_violations_cumulative,
                   twin, redLightVars, pc, fps, pending_violations, db_violations,
                   registryVars, events, resolutions, termination>>

NextTracker == TrackerUpdate

SpecTracker == InitTracker /\ [][NextTracker]_vars

\* C10: track ids start at 1, strictly increase in creation order, and are
\* never assigned twice, also after the track that held one has expired;
\* next_id is beyond every id handed out and every live track holds one of them.
C10_IdsNeverReused ==
    /\ created # <<>> => created[1].id = 1
    /\ \A i, j \in 1..Len(created) : i < j => created[i].id < created[j].id
    /\ \A i \in 1..Len(created) : created[i].id < next_id
    /\ DOMAIN tracked_vehicles \subseteq {created[i].id : i \in 1..Len(created)}

\* a vehicle reappears with the box and class of an expired track and is
\* tracked under a later id
C10_Witness ==
    \E i, j \in 1..Len(created) :
        /\ i < j
        /\ created[i].bbox = created[j].bbox
        /\ created[i].class_name = created[j].class_name
        /\ created[i].id \notin DOMAIN tracked_vehicles
        /\ created[j].id \in DOMAIN tracked_vehicles

\* C11: in one update call no track takes two detections: the ids of the
\* returned list are pairwise distinct.
C11_OneDetectionPerTrack ==
    last_call.op = "update" =>
        \A i, j \in 1..Len(last_call.ret) :
            last_call.ret[i].id = last_call.ret[j].id => i = j

\* C12: a track that an update call does not match and that has missed
\* fewer than max_missing_frames calls so far stays with one more miss; the
\* call that makes it max_missing_frames + 1 misses removes it; a match
\* keeps it and resets the count to 0.
C12_Step ==
    \A id \in DOMAIN tracked_vehicles :
        LET hit == \E k \in 1..Len(last_call'.matched) : last_call'.matched[k] = id
            misses == tracked_vehicles[id].frames_missing
        IN IF hit
           THEN /\ id \in DOMAIN tracked_vehicles'
                /\ tracked_vehicles'[id].frames_missing = 0
           ELSE IF misses + 1 <= max_missing_frames
           THEN /\ id \in DOMAIN tracked_vehicles'
                /\ tracked_vehicles'[id].frames_missing = misses + 1
           ELSE id \notin DOMAIN tracked_vehicles'
C12_ExpiryAfterLimit == [][C12_Step]_vars

\* one track is kept at exactly max_missing_frames misses while an earlier
\* track has been removed
C12_Witness ==
    /\ max_missing_frames >= 1
    /\ \E id \in DOMAIN tracked_vehicles :
          tracked_vehicles[id].frames_missing = max_missing_frames
    /\ \E i \in 1..Len(created) : created[i].id \notin DOMAIN tracked_vehicles

----------------------------------------------------------------------------
(* A VehicleTracker driven by update and mark_violation calls               *)
(* (specification SpecStore).  events is the log of the mark_violation      *)
(* calls: the track and type named, whether the track was in the store     *)
(* when the call was made, and what the call returned.                     *)

\* mark_violation calls in a run
MaxMarks == 4

\* update calls in a run
MaxStoreUpdates == 3

\* the frames: nothing, or one car
StoreFrames == {<<>>, <<Det(BoxA, "car")>>}

\* tracker.update(detections, frame_idx)
StoreUpdate ==
    /\ frame_idx < MaxStoreUpdates
    /\ \E dets \in StoreFrames :
         LET u == update(tracked_vehicles, next_id, iou_threshold,
                         max_missing_frames, dets, frame_idx)
         IN /\ tracked_vehicles' = u.tracked_vehicles
            /\ next_id' = u.next_id
            /\ created' = created \o u.allocated
            /\ last_call' = [op |-> "update", detections |-> dets,
                             ret |-> u.tracked_detections, matched |-> u.matched]
    /\ frame_idx' = frame_idx + 1
    /\ UNCHANGED <<iou_threshold, max_missing_frames, total_violations_cumulative,
                   twin, redLightVars, pc, fps, pending_violations, db_violations,
                   registryVars, events, resolutions, termination>>

\* tracker.mark_violation(vehicle_id, violation_type) for a live, an expired
\* or a never allocated id
StoreMark ==
    /\ Len(events) < MaxMarks
    /\ \E vehicle_id \in 1..next_id, violation_type \in ViolationTypes :
         LET m == mark_violation(tracked_vehicles, total_violations_cumulative,
                                 vehicle_id, violation_type)
         IN /\ tracked_vehicles' = m.tracked_vehicles
            /\ total_violations_cumulative' = m.total
            /\ last_call' = [op |-> "mark_violation", vehicle_id |-> vehicle_id,
                             violation_type |-> violation_type, ret |-> m.ret]
            /\ events' = Append(events,
                               [vehicle_id |-> vehicle_id,
                                violation_type |-> violation_type,
                                live |-> vehicle_id \in DOMAIN tracked_vehicles,
                                ret |-> m.ret])
    /\ UNCHANGED <<next_id, iou_threshold, max_missing_frames, twin, redLightVars,
                   sessionVars, registryVars, created, resolutions, termination>>

NextStore ==
    \/ StoreUpdate
    \/ StoreMark

SpecStore == InitTracker /\ [][NextStore]_vars

\* the statistics the tracker reports in the current state
stats == get_stats(tracked_vehicles, next_id, total_violations_cumulative)

\* C13: a mark_violation call returns true exactly when it names a track in
\* the store and no earlier call named that track, while it was in the
\* store, with the same type; so a repeat returns false, another type on
\* the same track returns true once, and an absent track gives false.
C13_TrueOncePerTrackAndType ==
    \A k \in 1..Len(events) :
        events[k].ret <=>
            /\ events[k].live
            /\ ~\E j \in 1..(k - 1) :
                    /\ events[j].vehicle_id = events[k].vehicle_id
                    /\ events[j].violation_type = events[k].violation_type
                    /\ events[j].live

\* on one live track: a type marked (true), marked again (false), then the
\* other type (true); and a call for an id that is not in the store (false)
C13_Witness ==
    /\ \E i, j, k \in 1..Len(events) :
          /\ i < j /\ j < k
          /\ events[i].vehicle_id = events[j].vehicle_id
          /\ events[j].vehicle_id = events[k].vehicle_id
          /\ events[i].violation_type = events[j].violation_type
          /\ events[k].violation_type # events[i].violation_type
          /\ events[i].ret /\ ~events[j].ret /\ events[j].live /\ events[k].ret
    /\ \E l \in 1..Len(events) : ~events[l].live /\ ~events[l].ret

\* C14: a mark_violation call that returns true raises the violation count
\* of the track and the reported total_violations by exactly 1 each; a call
\* that returns false changes no counter and no track.
C14_Step ==
    Len(events') = Len(events) + 1 =>
        LET e == events'[Len(events')]
            id == e.vehicle_id
        IN IF e.ret
           THEN /\ tracked_vehicles'[id].violation_count
                      = tracked_vehicles[id].violation_count + 1
                /\ tracked_vehicles'[id].violated_types
                      = tracked_vehicles[id].violated_types \cup {e.violation_type}
                /\ stats'.total_violations = stats.total_violations + 1
                /\ \A o \in DOMAIN tracked_vehicles \ {id} :
                      tracked_vehicles'[o] = tracked_vehicles[o]
           ELSE /\ tracked_vehicles' = tracked_vehicles
                /\ stats'.total_violations = stats.total_violations
C14_CountsByOne == [][C14_Step]_vars

\* a track marked with both types: its count and the total are 2
C14_Witness ==
    \E id \in DOMAIN tracked_vehicles :
        /\ tracked_vehicles[id].violated_types = ViolationTypes
        /\ tracked_vehicles[id].violation_count = 2
        /\ stats.total_violations = 2

\* C15: the reported total_violations never decreases, and an update call,
\* whatever tracks it removes, leaves it as it was.
C15_Step ==
    /\ stats'.total_violations >= stats.total_violations
    /\ frame_idx' # frame_idx => stats'.total_violations = stats.total_violations
C15_TotalNeverDecreases == [][C15_Step]_vars

\* a track with a recorded violation has expired and the total still counts it
C15_Witness ==
    /\ stats.total_violations >= 1
    /\ \E k \in 1..Len(events) :
          /\ events[k].ret
          /\ events[k].vehicle_id \notin DOMAIN tracked_vehicles
    /\ stats.total_violations = Cardinality({k \in 1..Len(events) : events[k].ret})

\* C39: after any update and mark_violation calls, every track in the store
\* has violation_count equal to the number of its recorded types and
\* has_violated true exactly when it has a recorded type; total_violations
\* is the number of mark_violation calls that returned true; and
\* active_vehicles is at most total_unique_vehicles, which is next_id - 1.
C39_CountersConsistent ==
    /\ \A id \in DOMAIN tracked_vehicles :
          /\ tracked_vehicles[id].violation_count
                = Cardinality(tracked_vehicles[id].violated_types)
          /\ tracked_vehicles[id].has_violated
                <=> tracked_vehicles[id].violated_types # {}
    /\ stats.total_violations = Cardinality({k \in 1..Len(events) : events[k].ret})
    /\ stats.total_unique_vehicles = next_id - 1
    /\ stats.total_unique_vehicles = Len(created)
    /\ stats.active_vehicles <= stats.total_unique_vehicles

\* a track in the store carries one recorded type after a call that
\* returned true and a repeat that returned false, and was matched by an
\* update call since
C39_Witness ==
    /\ last_call.op = "update"
    /\ Len(last_call.ret) = 1
    /\ stats.active_vehicles = 1
    /\ stats.total_unique_vehicles = 1
    /\ stats.total_violations = 1
    /\ \E id \in DOMAIN tracked_vehicles :
          /\ tracked_vehicles[id].violation_count = 1
          /\ tracked_vehicles[id].has_violated
          /\ \E j, k \in 1..Len(events) :
                /\ j < k
                /\ events[j].vehicle_id = id /\ events[j].ret
                /\ events[k].vehicle_id = id /\ events[k].live /\ ~events[k].ret

----------------------------------------------------------------------------
(* Two VehicleTracker instances with the same configuration, each given    *)
(* one update call per frame (specification SpecTwin).  The fields of the  *)
(* first are next_id and tracked_vehicles, those of the second are in twin. *)

\* state after VehicleTracker(max_missing_frames=TrackerMaxMissing), twice
InitTwin ==
    /\ next_id = 1
    /\ tracked_vehicles = <<>>
    /\ iou_threshold = [num |-> 3, den |-> 10]
    /\ max_missing_frames = TrackerMaxMissing
    /\ total_violations_cumulative = 0
    /\ twin = [next_id |-> 1, tracked_vehicles |-> <<>>, tracked_detections |-> <<>>]
    /\ stop_line_y = None
    /\ last_detected_signal_bbox = None
    /\ vehicle_positions = <<>>
    /\ pc = "idle"
    /\ frame_idx = 0
    /\ fps = VIDEO_FPS
    /\ pending_violations = <<>>
    /\ db_violations = <<>>
    /\ active_video_sessions = <<>>
    /\ processing_sessions = <<>>
    /\ handler = <<>>
    /\ worker = <<>>
    /\ created = <<>>
    /\ last_call = [op |-> "none"]
    /\ events = <<>>
    /\ resolutions = <<>>
    /\ termination = "running"

\* the first instance is called with dets, the second with twin_dets
twin_update(dets, twin_dets) ==
    LET u == update(tracked_vehicles, next_id, iou_threshold,
                    max_missing_frames, dets, frame_idx)
        w == update(twin.tracked_vehicles, twin.next_id, iou_threshold,
                    max_missing_frames, twin_dets, frame_idx)
    IN /\ tracked_vehicles' = u.tracked_vehicles
       /\ next_id' = u.next_id
       /\ created' = created \o u.allocated
       /\ last_call' = [op |-> "update", detections |-> dets,
                        ret |-> u.tracked_detections, matched |-> u.matched]
       /\ twin' = [next_id |-> w.next_id, tracked_vehicles |-> w.tracked_vehicles,
                   tracked_detections |-> w.tracked_detections]

\* a list back to front
Reverse(seq) == [i \in 1..Len(seq) |-> seq[Len(seq) + 1 - i]]

\* the second instance gets the detections of the frame in the opposite order
TwinUpdateReversed ==
    /\ frame_idx < MaxUpdates
    /\ \E dets \in TrackerFrames : twin_update(dets, Reverse(dets))
    /\ frame_idx' = frame_idx + 1
    /\ UNCHANGED <<iou_threshold, max_missing_frames, total_violations_cumulative,
                   redLightVars, pc, fps, pending_violations, db_violations,
                   registryVars, events, resolutions, termination>>

\* both instances get the same frame, its detections in the same order
TwinUpdate ==
    /\ frame_idx < MaxUpdates
    /\ \E dets \in TrackerFrames : twin_update(dets, dets)
    /\ frame_idx' = frame_idx + 1
    /\ UNCHANGED <<iou_threshold, max_missing_frames, total_violations_cumulative,
                   redLightVars, pc, fps, pending_violations, db_violations,
                   registryVars, events, resolutions, termination>>

NextTwin == TwinUpdate

SpecTwin == InitTwin /\ [][NextTwin]_vars

----------------------------------------------------------------------------
(* A RedLightSystem driven by its own calls (specification SpecRedLight).   *)
(* last_call holds the arguments of the last call, the stop line and the   *)
(* stored side of the track before the call, and the outcome.               *)

SignalStates == {"red", "green", "yellow", "unknown"}
\* vehicle ids the calls name
RLIds == {1, 2}
\* the stop line of the ROI configuration: no point, one point, two points
StopLineInputs == {<<>>, <<<<0, 300>>>>, <<<<0, 300>>, <<640, 300>>>>}
\* boxes with bottom 100 (before the line), 300 (on it), 400 (after it), and
\* a box of two numbers
RLBoxes == {<<100, 0, 200, 100>>, <<100, 200, 200, 300>>,
            <<100, 300, 200, 400>>, <<100, 200>>}

\* state after RedLightSystem()
InitRedLight ==
    /\ next_id = 1
    /\ tracked_vehicles = <<>>
    /\ iou_threshold = [num |-> 3, den |-> 10]
    /\ max_missing_frames = 10
    /\ total_violations_cumulative = 0
    /\ twin = None
    /\ stop_line_y = None
    /\ last_detected_signal_bbox = None
    /\ vehicle_positions = <<>>
    /\ pc = "idle"
    /\ frame_idx = 0
    /\ fps = VIDEO_FPS
    /\ pending_violations = <<>>
    /\ db_violations = <<>>
    /\ active_video_sessions = <<>>
    /\ processing_sessions = <<>>
    /\ handler = <<>>
    /\ worker = <<>>
    /\ created = <<>>
    /\ last_call = [op |-> "none"]
    /\ events = <<>>
    /\ resolutions = <<>>
    /\ termination = "running"

\* red_light.set_stop_line(points)
RLSetStopLine ==
    /\ \E points \in StopLineInputs :
         /\ stop_line_y' = set_stop_line(stop_line_y, points)
         /\ last_call' = [op |-> "set_stop_line", points |-> points]
    /\ UNCHANGED <<trackerVars, last_detected_signal_bbox, vehicle_positions,
                   sessionVars, registryVars, created, events, resolutions, termination>>

\* red_light.check_violation(vehicle_id, vehicle_bbox, signal_state)
RLCheckViolation ==
    /\ \E vehicle_id \in RLIds, vehicle_bbox \in RLBoxes, signal_state \in SignalStates :
         LET call == [op |-> "check_violation", vehicle_id |-> vehicle_id,
                      vehicle_bbox |-> vehicle_bbox, signal_state |-> signal_state,
                      stop_line |-> stop_line_y,
                      previous |-> IF vehicle_id \in DOMAIN vehicle_positions
                                   THEN vehicle_positions[vehicle_id] ELSE "unseen"]
         IN IF check_violation_raises(stop_line_y, vehicle_bbox)
            THEN /\ last_call' = call @@ [raised |-> TRUE, ret |-> FALSE]
                 /\ UNCHANGED vehicle_positions
            ELSE LET cv == check_violation(vehicle_positions, stop_line_y, vehicle_id,
                                           vehicle_bbox, signal_state)
                 IN /\ last_call' = call @@ [raised |-> FALSE, ret |-> cv.ret]
                    /\ vehicle_positions' = cv.vehicle_positions
    /\ UNCHANGED <<trackerVars, stop_line_y, last_detected_signal_bbox,
                   sessionVars, registryVars, created, events, resolutions, termination>>

\* red_light.cleanup_old_vehicles(active_vehicle_ids)
RLCleanup ==
    /\ \E active_vehicle_ids \in SUBSET RLIds :
         /\ vehicle_positions' = cleanup_old_vehicles(vehicle_positions, active_vehicle_ids)
         /\ last_call' = [op |-> "cleanup_old_vehicles", active_vehicle_ids |-> active_vehicle_ids]
    /\ UNCHANGED <<trackerVars, stop_line_y, last_detected_signal_bbox,
                   sessionVars, registryVars, created, events, resolutions, termination>>

NextRedLight ==
    \/ RLSetStopLine
    \/ RLCheckViolation
    \/ RLCleanup

SpecRedLight == InitRedLight /\ [][NextRedLight]_vars

\* C16: with a stop line configured, check_violation returns true exactly
\* when the stored previous side of the track is 'before' (or the track is
\* unseen), the box bottom is beyond the line and the signal is red: never
\* for green, yellow or unknown, never for a track stored as 'after'; the
\* side it found is stored for the next call.
C16_FiresOnRedCrossingOnly ==
    (/\ last_call.op = "check_violation"
     /\ last_call.stop_line # None
     /\ ~last_call.raised) =>
        LET after == last_call.vehicle_bbox[4] > last_call.stop_line[1]
        IN /\ last_call.ret <=> (/\ last_call.previous \in {"before", "unseen"}
                                  /\ after
                                  /\ last_call.signal_state = "red")
           /\ last_call.signal_state # "red" => ~last_call.ret
           /\ last_call.previous = "after" => ~last_call.ret
           /\ vehicle_positions[last_call.vehicle_id]
                 = IF after THEN "after" ELSE "before"

\* a track stored as 'after' is seen beyond the line under red again and
\* the call returns false
C16_Witness ==
    /\ last_call.op = "check_violation"
    /\ last_call.stop_line # None
    /\ ~last_call.raised
    /\ last_call.previous = "after"
    /\ last_call.signal_state = "red"
    /\ last_call.vehicle_bbox[4] > last_call.stop_line[1]
    /\ ~last_call.ret

C26_Step ==
    (/\ last_call'.op = "check_violation"
     /\ last_call'.stop_line # None
     /\ ~last_call'.raised) =>
        LET vid == last_call'.vehicle_id
            side == IF last_call'.vehicle_bbox[4] > stop_line_y[1]
                    THEN "after" ELSE "before"
            crossed_before ==
                /\ last_call.op = "check_violation"
                /\ last_call.vehicle_id = vid
                /\ last_call.stop_line # None
                /\ ~last_call.raised
                /\ last_call.previous \in {"before", "unseen"}
                /\ last_call.vehicle_bbox[4] > last_call.stop_line[1]
                /\ last_call.signal_state # "red"
        IN /\ DOMAIN vehicle_positions' = DOMAIN vehicle_positions \cup {vid}
           /\ vehicle_positions'[vid] = side
           /\ \A other \in DOMAIN vehicle_positions \ {vid} :
                 vehicle_positions'[other] = vehicle_positions[other]
           /\ (vid \in DOMAIN vehicle_positions /\ vehicle_positions[vid] = "after")
                 => ~last_call'.ret
           /\ crossed_before => ~last_call'.ret
C26_SideAlwaysStored == [][C26_Step]_vars

\* a track stored as 'before' was seen beyond the line under green: the
\* call returned false and the track is stored as 'after'
C26_Witness ==
    /\ last_call.op = "check_violation"
    /\ last_call.stop_line # None
    /\ ~last_call.raised
    /\ last_call.previous = "before"
    /\ last_call.signal_state = "green"
    /\ last_call.vehicle_bbox[4] > last_call.stop_line[1]
    /\ ~last_call.ret
    /\ vehicle_positions[last_call.vehicle_id] = "after"

\* C33: a track with no stored side (never evaluated, or forgotten by
\* cleanup_old_vehicles) is taken as 'before': when its first evaluation
\* finds the box bottom beyond the stop line under a red signal the call
\* returns true at once, with no earlier sighting before the line; under
\* any other signal, or with the bottom not beyond the line, it is false.
C33_FirstSightingBeyondLineFires ==
    (/\ last_call.op = "check_violation"
     /\ last_call.stop_line # None
     /\ ~last_call.raised
     /\ last_call.previous = "unseen") =>
        (last_call.ret <=> (/\ last_call.signal_state = "red"
                            /\ last_call.vehicle_bbox[4] > last_call.stop_line[1]))

\* the first evaluation of a track found its box beyond the line under red
\* and returned true
C33_Witness ==
    /\ last_call.op = "check_violation"
    /\ last_call.stop_line # None
    /\ ~last_call.raised
    /\ last_call.previous = "unseen"
    /\ last_call.signal_state = "red"
    /\ last_call.vehicle_bbox[4] > last_call.stop_line[1]
    /\ last_call.ret
    /\ vehicle_positions[last_call.vehicle_id] = "after"

----------------------------------------------------------------------------
(* The session worker on one scripted video (specification SpecScenario):  *)
(* one car drives down the frame at 10 px per frame, its box bottom passes *)
(* the stop line y = 300 while the signal is red, every commit succeeds.   *)

\* frames of the video
ScenarioFrames == 60
SCENARIO_STOP_LINE == <<<<0, 300>>, <<FRAME_W, 300>>>>
\* the box of the car in frame k: bottom 105 + 10 k
ScenarioBox(k) == <<100, 5 + 10 * k, 200, 105 + 10 * k>>
\* the frame in which the bottom is beyond the line for the first time
CrossingFrame ==
    CHOOSE k \in 1..ScenarioFrames :
        /\ ScenarioBox(k)[4] > 300
        /\ ScenarioBox(k - 1)[4] <= 300
\* red counted in the signal region
PxRed == [roi_size |-> 3000, red |-> 120, yellow |-> 0, green |-> 0]

\* the worker is started for the video with the stop line at y = 300
InitScenario ==
    /\ next_id = 1
    /\ tracked_vehicles = <<>>
    /\ iou_threshold = [num |-> 3, den |-> 10]
    /\ max_missing_frames = 10
    /\ total_violations_cumulative = 0
    /\ twin = None
    /\ stop_line_y = set_stop_line(None, SCENARIO_STOP_LINE)
    /\ last_detected_signal_bbox = None
    /\ vehicle_positions = <<>>
    /\ pc = "loop"
    /\ frame_idx = 0
    /\ fps = VIDEO_FPS
    /\ pending_violations = <<>>
    /\ db_violations = <<>>
    /\ active_video_sessions =
         [p \in {VIDEO} |-> [room_id |-> ROOM, stop |-> FALSE, progress |-> 0]]
    /\ processing_sessions = <<>>
    /\ handler = <<>>
    /\ worker = <<>>
    /\ created = <<>>
    /\ last_call = [op |-> "none"]
    /\ events = <<>>
    /\ resolutions = <<>>
    /\ termination = "running"

\* lines 257-391 on frame frame_idx of the video: the traffic light is seen
\* red in the crossing frame and is whatever it is in the others; the OCR
\* reads a plate or not
ScenarioFrame ==
    /\ pc = "loop"
    /\ ~stop_requested(active_video_sessions, VIDEO)
    /\ frame_idx < ScenarioFrames
    /\ \E yolo \in YoloInputs, px \in PxInputs, ocr \in OcrOutcomes :
         /\ frame_idx = CrossingFrame => (yolo # None /\ px = PxRed)
         /\ LET R == process_frame(WorkerState,
                                   [yolo |-> yolo, px |-> px,
                                    dets |-> <<Det(ScenarioBox(frame_idx), "car")>>,
                                    ocrs |-> <<ocr>>, failing |-> {}],
                                   frame_idx, fps)
            IN /\ SetWorkerState(R)
               /\ IF R.raised
                  THEN /\ pc' = "failed"
                       /\ termination' = "exception"
                       /\ UNCHANGED <<frame_idx, active_video_sessions>>
                  ELSE /\ pc' = "loop"
                       /\ frame_idx' = frame_idx + 1
                       /\ active_video_sessions' =
                            set_progress(active_video_sessions, VIDEO,
                                         progress_of(frame_idx, ScenarioFrames))
                       /\ UNCHANGED termination
    /\ UNCHANGED <<iou_threshold, max_missing_frames, twin, stop_line_y, fps,
                   processing_sessions, handler, worker, last_call>>

\* lines 257-259: cap.read() fails after the last frame
ScenarioExhausted ==
    /\ pc = "loop"
    /\ ~stop_requested(active_video_sessions, VIDEO)
    /\ frame_idx = ScenarioFrames
    /\ pc' = "flush"
    /\ termination' = "exhausted"
    /\ UNCHANGED <<trackerVars, redLightVars, frame_idx, fps, pending_violations,
                   db_violations, registryVars, created, last_call, events, resolutions>>

NextScenario ==
    \/ ScenarioFrame
    \/ ScenarioExhausted
    \/ Flush
    \/ Finally

SpecScenario == InitScenario /\ [][NextScenario]_vars

\* C19: the car stays one track and never reads above the limit, so no
\* Speeding event fires; when the session has ended, after all frames,
\* exactly one row is saved, a Red Light row detected in the crossing
\* frame, and the statistics report 1 unique vehicle and 1 violation.
C19_EndToEnd ==
    /\ stats.total_unique_vehicles <= 1
    /\ \A id \in DOMAIN tracked_vehicles :
          tracked_vehicles[id].speed_kmh <= SPEED_LIMIT * SpeedScale
    /\ \A k \in 1..Len(events) : events[k].violation_type = RedLight
    /\ pc = "done" =>
          /\ termination = "exhausted"
          /\ frame_idx = ScenarioFrames
          /\ Len(db_violations) = 1
          /\ db_violations[1].violation_type = RedLight
          /\ db_violations[1].frame_number = CrossingFrame
          /\ stats.total_unique_vehicles = 1
          /\ stats.total_violations = 1

\* the session ended after all frames with the row saved at the threshold
C19_Witness ==
    /\ pc = "done"
    /\ frame_idx = ScenarioFrames
    /\ Len(db_violations) = 1
    /\ \E i \in 1..Len(resolutions) :
          /\ resolutions[i].phase = "threshold"
          /\ resolutions[i].outcome = "saved"
          /\ resolutions[i].frame = CrossingFrame + CONFIRM_FRAMES

----------------------------------------------------------------------------
(* A VehicleTracker following one car that moves at a constant 60 km/h     *)
(* (specification SpecSpeed), as test_speed_estimation_accuracy drives it: *)
(* per frame one update call with the box of the car and one               *)
(* calculate_speed call with fps = 30 and ppm = 40.  At 60 km/h the car    *)
(* moves 200/9 px per frame; the box is at the integer part.  The tracker  *)
(* matches the car in every frame, so max_missing_frames plays no part.    *)

\* frames of the run
SpeedFrames == 60
\* where the car starts: at x = 100 moving right, or at x = 1500 moving left
SpeedStarts == {100, 1500}
\* pixels covered after k frames: int(k * 200 / 9)
SpeedTravel(k) == (200 * k) \div 9
\* the box of the car in frame k, 50 wide and 30 high
SpeedBox(start, k) ==
    LET x == IF start = 100 THEN start + SpeedTravel(k) ELSE start - SpeedTravel(k)
    IN <<x, 100, x + 50, 130>>

\* tracker.update([det], i) followed by tracker.calculate_speed(vid, 30, 40)
SpeedFrame ==
    /\ frame_idx < SpeedFrames
    /\ \E start \in SpeedStarts :
         /\ created # <<>> => created[1].bbox = SpeedBox(start, 0)
         /\ LET dets == <<Det(SpeedBox(start, frame_idx), "car")>>
                u == update(tracked_vehicles, next_id, iou_threshold,
                            max_missing_frames, dets, frame_idx)
                vid == u.tracked_detections[1].id
                cs == calculate_speed(u.tracked_vehicles, vid, fps, PIXELS_PER_METER)
            IN /\ tracked_vehicles' = cs.tracked_vehicles
               /\ next_id' = u.next_id
               /\ created' = created \o u.allocated
               /\ last_call' = [op |-> "calculate_speed", vehicle_id |-> vid,
                                frames |-> frame_idx + 1, raised |-> cs.raised,
                                ret |-> cs.speed]
    /\ frame_idx' = frame_idx + 1
    /\ UNCHANGED <<iou_threshold, max_missing_frames, total_violations_cumulative,
                   twin, redLightVars, pc, fps, pending_violations, db_violations,
                   registryVars, events, resolutions, termination>>

NextSpeed == SpeedFrame

SpecSpeed == InitTracker /\ [][NextSpeed]_vars

\* C20: from the 10th frame on, the speed calculate_speed returns for the
\* car is between 54 and 66 km/h.
C20_WithinTenPercent ==
    (last_call.op = "calculate_speed" /\ last_call.frames >= 10) =>
        /\ last_call.ret >= 54 * SpeedScale
        /\ last_call.ret <= 66 * SpeedScale

----------------------------------------------------------------------------
(* A VehicleTracker driven through its whole interface (specification       *)
(* SpecApi): update, calculate_speed, mark_violation and                    *)
(* update_license_plate, the last three for an id that is live, expired or *)
(* was never allocated.  events is the log of the calls other than update. *)

\* update calls in a run
MaxApiUpdates == 3
\* calls other than update in a run
MaxApiCalls == 2
\* a car seen at BoxA, then at BoxB, or not at all
ApiFrames == {<<>>, <<Det(BoxA, "car")>>, <<Det(BoxB, "car")>>}
\* the ids the calls name: the first track, and an id never allocated
ApiIds == {1, 9}
\* the fps argument of calculate_speed
ApiFps == {0 - VIDEO_FPS, 0, VIDEO_FPS}
\* a plate text
ApiPlateText == <<"A", "B", "C", "1", "2", "3">>

\* tracker.update(detections, frame_idx)
ApiUpdate ==
    /\ frame_idx < MaxApiUpdates
    /\ \E dets \in ApiFrames :
         LET u == update(tracked_vehicles, next_id, iou_threshold,
                         max_missing_frames, dets, frame_idx)
         IN /\ tracked_vehicles' = u.tracked_vehicles
            /\ next_id' = u.next_id
            /\ created' = created \o u.allocated
            /\ last_call' = [op |-> "update", detections |-> dets,
                             ret |-> u.tracked_detections, matched |-> u.matched]
    /\ frame_idx' = frame_idx + 1
    /\ UNCHANGED <<iou_threshold, max_missing_frames, total_violations_cumulative,
                   twin, redLightVars, pc, fps, pending_violations, db_violations,
                   registryVars, events, resolutions, termination>>

\* tracker.calculate_speed(vehicle_id, fps=f, ppm=PIXELS_PER_METER); a call
\* that raises leaves the tracker as it was
ApiSpeed ==
    /\ Len(events) < MaxApiCalls
    /\ \E vehicle_id \in ApiIds, f \in ApiFps :
         LET cs == calculate_speed(tracked_vehicles, vehicle_id, f, PIXELS_PER_METER)
             known == vehicle_id \in DOMAIN tracked_vehicles
         IN /\ tracked_vehicles' = cs.tracked_vehicles
            /\ last_call' = [op |-> "calculate_speed", vehicle_id |-> vehicle_id,
                             f |-> f,
                             centroids |-> IF known
                                           THEN Len(tracked_vehicles[vehicle_id].centroids)
                                           ELSE 0,
                             cached |-> IF known THEN tracked_vehicles[vehicle_id].speed_kmh
                                        ELSE 0,
                             raised |-> cs.raised, ret |-> cs.speed]
    /\ events' = Append(events, "calculate_speed")
    /\ UNCHANGED <<next_id, iou_threshold, max_missing_frames,
                   total_violations_cumulative, twin, redLightVars, sessionVars,
                   registryVars, created, resolutions, termination>>

\* tracker.mark_violation(vehicle_id, violation_type)
ApiMark ==
    /\ Len(events) < MaxApiCalls
    /\ \E vehicle_id \in ApiIds, violation_type \in ViolationTypes :
         LET m == mark_violation(tracked_vehicles, total_violations_cumulative,
                                 vehicle_id, violation_type)
         IN /\ tracked_vehicles' = m.tracked_vehicles
            /\ total_violations_cumulative' = m.total
            /\ last_call' = [op |-> "mark_violation", vehicle_id |-> vehicle_id,
                             violation_type |-> violation_type,
                             raised |-> FALSE, ret |-> m.ret]
    /\ events' = Append(events, "mark_violation")
    /\ UNCHANGED <<next_id, iou_threshold, max_missing_frames, twin, redLightVars,
                   sessionVars, registryVars, created, resolutions, termination>>

\* tracker.update_license_plate(vehicle_id, plate)
ApiPlate ==
    /\ Len(events) < MaxApiCalls
    /\ \E vehicle_id \in ApiIds :
         /\ tracked_vehicles' = update_license_plate(tracked_vehicles, vehicle_id,
                                                     ApiPlateText)
         /\ last_call' = [op |-> "update_license_plate", vehicle_id |-> vehicle_id,
                          raised |-> FALSE, ret |-> None]
    /\ events' = Append(events, "update_license_plate")
    /\ UNCHANGED <<next_id, iou_threshold, max_missing_frames,
                   total_violations_cumulative, twin, redLightVars, sessionVars,
                   registryVars, created, resolutions, termination>>

NextApi ==
    \/ ApiUpdate
    \/ ApiSpeed
    \/ ApiMark
    \/ ApiPlate

SpecApi == InitTracker /\ [][NextApi]_vars

\* C21: a calculate_speed call with fps <= 0 for a track in the store that
\* has two centroids or more raises nothing and returns 0.
C21_NoSpeedWithoutTime ==
    (/\ last_call.op = "calculate_speed"
     /\ last_call.f <= 0
     /\ last_call.centroids >= 2) =>
        /\ ~last_call.raised
        /\ last_call.ret = 0

\* C23: a calculate_speed, mark_violation or update_license_plate call that
\* names an id not in the store (never allocated, or expired) raises
\* nothing, leaves the track store, next_id and the cumulative total as
\* they were, and returns 0, false and nothing respectively.
C23_Step ==
    (/\ last_call'.op \in {"calculate_speed", "mark_violation", "update_license_plate"}
     /\ last_call'.vehicle_id \notin DOMAIN tracked_vehicles) =>
        /\ ~last_call'.raised
        /\ tracked_vehicles' = tracked_vehicles
        /\ next_id' = next_id
        /\ total_violations_cumulative' = total_violations_cumulative
        /\ last_call'.op = "calculate_speed" => last_call'.ret = 0
        /\ last_call'.op = "mark_violation" => last_call'.ret = FALSE
        /\ last_call'.op = "update_license_plate" => last_call'.ret = None
C23_UnknownIdIsNoOp == [][C23_Step]_vars

\* the first track has expired and a mark_violation call naming it returned
\* false, after a calculate_speed call with fps = 0 naming an id never
\* allocated
C23_Witness ==
    /\ last_call.op = "mark_violation"
    /\ last_call.vehicle_id \notin DOMAIN tracked_vehicles
    /\ \E i \in 1..Len(created) : created[i].id = last_call.vehicle_id
    /\ ~last_call.ret
    /\ events = <<"calculate_speed", "mark_violation">>

----------------------------------------------------------------------------
(* A VehicleTracker matching detections against several tracks of one      *)
(* class (specification SpecMatch).  The tracker is constructed with        *)
(* iou_threshold 0.3 or 0 and with max_missing_frames TrackerMaxMissing or *)
(* 0.  last_call holds, besides the arguments and the returned list, the    *)
(* track store and next_id as they were when the call was made.            *)

\* update calls in a run
MaxMatchUpdates == 3

\* BoxA and BoxRight touch along x = 100 (IoU 0); BoxMid overlaps each of
\* them by half (IoU 1/3 with both); BoxSkew overlaps BoxA by 47 and
\* BoxRight by 53 columns (IoU 47/153 and 53/147); BoxEdge overlaps BoxA
\* by a quarter (IoU 1/7, below 0.3) and BoxRight by three quarters (IoU
\* 3/5); BoxFlat has width 0.
BoxRight == <<100, 0, 200, 100>>
BoxMid == <<50, 0, 150, 100>>
BoxSkew == <<53, 0, 153, 100>>
BoxEdge == <<75, 0, 175, 100>>
BoxFlat == <<50, 0, 50, 100>>

MatchFrames ==
    {<<>>,
     <<Det(BoxA, "car")>>, <<Det(BoxRight, "car")>>, <<Det(BoxMid, "car")>>,
     <<Det(BoxSkew, "car")>>, <<Det(BoxEdge, "car")>>, <<Det(BoxFlat, "car")>>,
     <<Det(BoxMid, "truck")>>,
     <<Det(BoxA, "car"), Det(BoxRight, "car")>>,
     <<Det(BoxFlat, "car"), Det(BoxMid, "car")>>,
     <<Det(BoxMid, "car"), Det(BoxEdge, "car")>>}

MatchThresholds == {[num |-> 0, den |-> 1], [num |-> 3, den |-> 10]}
MatchMaxMissing == {0, TrackerMaxMissing}

\* state after VehicleTracker(iou_threshold=thr, max_missing_frames=mmf)
InitMatch ==
    /\ next_id = 1
    /\ tracked_vehicles = <<>>
    /\ iou_threshold \in MatchThresholds
    /\ max_missing_frames \in MatchMaxMissing
    /\ total_violations_cumulative = 0
    /\ twin = None
    /\ stop_line_y = None
    /\ last_detected_signal_bbox = None
    /\ vehicle_positions = <<>>
    /\ pc = "idle"
    /\ frame_idx = 0
    /\ fps = VIDEO_FPS
    /\ pending_violations = <<>>
    /\ db_violations = <<>>
    /\ active_video_sessions = <<>>
    /\ processing_sessions = <<>>
    /\ handler = <<>>
    /\ worker = <<>>
    /\ created = <<>>
    /\ last_call = [op |-> "none"]
    /\ events = <<>>
    /\ resolutions = <<>>
    /\ termination = "running"

\* tracker.update(detections, frame_idx), called with consecutive frame indices
MatchUpdate ==
    /\ frame_idx < MaxMatchUpdates
    /\ \E dets \in MatchFrames :
         LET u == update(tracked_vehicles, next_id, iou_threshold,
                         max_missing_frames, dets, frame_idx)
         IN /\ tracked_vehicles' = u.tracked_vehicles
            /\ next_id' = u.next_id
            /\ created' = created \o u.allocated
            /\ last_call' = [op |-> "update", detections |-> dets,
                             frame_idx |-> frame_idx,
                             before |-> tracked_vehicles, next_id_before |-> next_id,
                             ret |-> u.tracked_detections, matched |-> u.matched]
    /\ frame_idx' = frame_idx + 1
    /\ UNCHANGED <<iou_threshold, max_missing_frames, total_violations_cumulative,
                   twin, redLightVars, pc, fps, pending_violations, db_violations,
                   registryVars, events, resolutions, termination>>

NextMatch == MatchUpdate

SpecMatch == InitMatch /\ [][NextMatch]_vars

\* a box of zero or negative width or height
Degenerate(bbox) == bbox[3] <= bbox[1] \/ bbox[4] <= bbox[2]

\* the tracker as detection i of the last update call found it: the tracks
\* aged by one and the detections before i processed
SeenBy(i) ==
    update_dets([tracked_vehicles |-> age_all(last_call.before),
                 next_id |-> last_call.next_id_before,
                 tracked_detections |-> <<>>, allocated |-> <<>>, matched |-> <<>>],
                SubSeq(last_call.detections, 1, i - 1), 1,
                last_call.frame_idx, iou_threshold)

\* the tracks detection i of the last update call may be matched to: same
\* class, IoU above 0 and at least iou_threshold
Candidates(i) ==
    LET tv == SeenBy(i).tracked_vehicles
        det == last_call.detections[i]
    IN {id \in DOMAIN tv :
           /\ tv[id].class_name = det.class_name
           /\ calculate_iou(det.bbox, tv[id].bbox).num > 0
           /\ FracGE(calculate_iou(det.bbox, tv[id].bbox), iou_threshold)}

\* the candidates of detection i that no candidate beats
BestCandidates(i) ==
    LET tv == SeenBy(i).tracked_vehicles
        det == last_call.detections[i]
    IN {id \in Candidates(i) :
           \A c \in Candidates(i) :
               FracGE(calculate_iou(det.bbox, tv[id].bbox),
                      calculate_iou(det.bbox, tv[c].bbox))}

\* C22: update drops a detection with a degenerate box: no track holds such
\* a box, no snapshot carries one, and a call allocates no more ids than it
\* was given detections with a proper box.
C22_DegenerateDropped ==
    last_call.op = "update" =>
        /\ \A id \in DOMAIN tracked_vehicles : ~Degenerate(tracked_vehicles[id].bbox)
        /\ \A i \in 1..Len(last_call.ret) : ~Degenerate(last_call.ret[i].bbox)
        /\ next_id - last_call.next_id_before
              <= Cardinality({i \in 1..Len(last_call.detections) :
                                 ~Degenerate(last_call.detections[i].bbox)})

\* C27: every detection of an update call is given the id of one of its
\* candidates (same class, IoU above 0 and at least iou_threshold), one that
\* no other candidate beats on IoU; a detection without candidates is given
\* the next free id, which no track held.
C27_MatchRule ==
    last_call.op = "update" =>
        \A i \in 1..Len(last_call.detections) :
            LET id == last_call.ret[i].id
            IN IF Candidates(i) = {}
               THEN /\ id = SeenBy(i).next_id
                    /\ id \notin DOMAIN SeenBy(i).tracked_vehicles
               ELSE id \in BestCandidates(i)

\* with threshold 0.3, a detection that has two candidates (IoU 47/153 with
\* track 1 and 53/147 with track 2) was matched to track 2
C27_Witness ==
    /\ last_call.op = "update"
    /\ iou_threshold = [num |-> 3, den |-> 10]
    /\ \E i \in 1..Len(last_call.detections) :
          /\ Candidates(i) = {1, 2}
          /\ BestCandidates(i) = {2}
          /\ last_call.ret[i].id = 2

\* C28: a detection whose highest candidate IoU is reached by two tracks or
\* more is matched to the one of them with the lowest id.
C28_TieLowestId ==
    last_call.op = "update" =>
        \A i \in 1..Len(last_call.detections) :
            Cardinality(BestCandidates(i)) >= 2 =>
                last_call.ret[i].id = SetMin(BestCandidates(i))

\* a detection had IoU 1/3 with tracks 1 and 2 and was matched to track 1
C28_Witness ==
    /\ last_call.op = "update"
    /\ \E i \in 1..Len(last_call.detections) :
          /\ BestCandidates(i) = {1, 2}
          /\ last_call.ret[i].id = 1
          /\ tracked_vehicles[1].bbox = last_call.detections[i].bbox

\* C29: update returns one snapshot per detection, in order, with the box
\* and class of the detection; the id of each snapshot is a track in the
\* store with frames_missing 0 that holds the class of the detection; a
\* track of the store that the call only aged, or removed, is in no snapshot.
C29_SnapshotPerDetection ==
    last_call.op = "update" =>
        /\ Len(last_call.ret) = Len(last_call.detections)
        /\ \A i \in 1..Len(last_call.ret) :
              LET s == last_call.ret[i]
              IN /\ s.bbox = last_call.detections[i].bbox
                 /\ s.class_name = last_call.detections[i].class_name
                 /\ s.id \in DOMAIN tracked_vehicles
                 /\ tracked_vehicles[s.id].frames_missing = 0
                 /\ tracked_vehicles[s.id].class_name = s.class_name
                 /\ s.id = IF Candidates(i) = {} THEN SeenBy(i).next_id
                           ELSE SetMin(BestCandidates(i))
        /\ \A id \in DOMAIN last_call.before :
              (\/ id \notin DOMAIN tracked_vehicles
               \/ tracked_vehicles[id].frames_missing > 0)
                 => \A i \in 1..Len(last_call.ret) : last_call.ret[i].id # id

\* a call returned a snapshot for its detection while one track was only
\* aged and another one was removed
C29_Witness ==
    /\ last_call.op = "update"
    /\ Len(last_call.ret) >= 1
    /\ \E id \in DOMAIN last_call.before :
          /\ id \in DOMAIN tracked_vehicles
          /\ tracked_vehicles[id].frames_missing > 0
    /\ \E id \in DOMAIN last_call.before : id \notin DOMAIN tracked_vehicles

\* C31: a track keeps the class it was created with: the class stored on
\* every track of the store is the class of the detection that created it,
\* and every snapshot an update call returns carries, as the class of its
\* detection, the class its track was created with.
C31_ClassFixedAtCreation ==
    LET created_class(id) ==
            created[CHOOSE k \in 1..Len(created) : created[k].id = id].class_name
    IN /\ \A id \in DOMAIN tracked_vehicles :
             tracked_vehicles[id].class_name = created_class(id)
       /\ last_call.op = "update" =>
             \A i \in 1..Len(last_call.ret) :
                 /\ last_call.detections[i].class_name = created_class(last_call.ret[i].id)
                 /\ last_call.ret[i].class_name = created_class(last_call.ret[i].id)

\* a truck was detected on the box a car track held (IoU 1): it was given a
\* track of its own and the car track is still a car
C31_Witness ==
    /\ last_call.op = "update"
    /\ \E i \in 1..Len(last_call.ret), id \in DOMAIN last_call.before :
          /\ last_call.detections[i].class_name = "truck"
          /\ last_call.before[id].class_name = "car"
          /\ last_call.before[id].bbox = last_call.detections[i].bbox
          /\ last_call.ret[i].id # id
          /\ last_call.ret[i].id \notin DOMAIN last_call.before
          /\ id \in DOMAIN tracked_vehicles
          /\ tracked_vehicles[id].class_name = "car"

----------------------------------------------------------------------------
(* calculate_iou applied to every pair of boxes with corners on a grid      *)
(* (specification SpecIou).  last_call holds the two boxes, the result,    *)
(* and the result of the call with the boxes swapped.                      *)

\* corner coordinates
IouCoords == {0, 5, 10, 15}
\* the boxes with x1 <= x2 and y1 <= y2, those of zero area included
IouBoxes ==
    {<<x1, y1, x2, y2>> : x1 \in IouCoords, y1 \in IouCoords,
                          x2 \in IouCoords, y2 \in IouCoords}
        \cap {b \in Seq(IouCoords) : Len(b) = 4 /\ b[1] <= b[3] /\ b[2] <= b[4]}

\* tracker.calculate_iou(bbox1, bbox2), one call per run
IouCall ==
    /\ last_call.op = "none"
    /\ \E bbox1 \in IouBoxes, bbox2 \in IouBoxes :
         last_call' = [op |-> "calculate_iou", bbox1 |-> bbox1, bbox2 |-> bbox2,
                       ret |-> calculate_iou(bbox1, bbox2),
                       swapped |-> calculate_iou(bbox2, bbox1)]
    /\ UNCHANGED <<trackerVars, redLightVars, sessionVars, registryVars,
                   created, events, resolutions, termination>>

NextIou == IouCall

SpecIou == InitTracker /\ [][NextIou]_vars

\* the 5 x 5 cells of the grid, named by their lower corner, that lie in a box
CellsIn(bbox) ==
    {c \in (IouCoords \ {15}) \X (IouCoords \ {15}) :
        /\ bbox[1] <= c[1] /\ c[1] + 5 <= bbox[3]
        /\ bbox[2] <= c[2] /\ c[2] + 5 <= bbox[4]}

\* C24: calculate_iou returns the area both boxes cover divided by the area
\* either box covers (25/175 for [0,0,10,10] and [5,5,15,15]); 0 when the
\* boxes share no area or one of them has area 0; the same value with the
\* arguments swapped; and a value between 0 and 1.
C24_IouIsIntersectionOverUnion ==
    last_call.op = "calculate_iou" =>
        LET both == 25 * Cardinality(CellsIn(last_call.bbox1) \cap CellsIn(last_call.bbox2))
            either == 25 * Cardinality(CellsIn(last_call.bbox1) \cup CellsIn(last_call.bbox2))
            r == last_call.ret
        IN /\ r.den > 0
           /\ 0 <= r.num /\ r.num <= r.den
           /\ both = 0 => r.num = 0
           /\ CellsIn(last_call.bbox1) = {} \/ CellsIn(last_call.bbox2) = {} => r.num = 0
           /\ both > 0 => r.num * either = both * r.den
           /\ r.num * last_call.swapped.den = last_call.swapped.num * r.den
           /\ (last_call.bbox1 = <<0, 0, 10, 10>> /\ last_call.bbox2 = <<5, 5, 15, 15>>)
                 => r.num * 175 = 25 * r.den

\* the call for [0,0,10,10] and [5,5,15,15] returned 1/7
C24_Witness ==
    /\ last_call.op = "calculate_iou"
    /\ last_call.bbox1 = <<0, 0, 10, 10>>
    /\ last_call.bbox2 = <<5, 5, 15, 15>>
    /\ last_call.ret.num * 7 = last_call.ret.den

----------------------------------------------------------------------------
(* detect_signal_state applied to the pixel counts of a region              *)
(* (specification SpecSignal): each count is below, at or above the        *)
(* minimum of 50, or the region is empty.                                  *)

\* what a colour mask may count in a region of 1000 pixels
SignalCounts == {0, 49, 50, 51, 120}
SignalInputs ==
    {[roi_size |-> 3000, red |-> r, yellow |-> y, green |-> g] :
        r \in SignalCounts, y \in SignalCounts, g \in SignalCounts}
    \cup {[roi_size |-> 0, red |-> 0, yellow |-> 0, green |-> 0]}

\* red_light.detect_signal_state(frame, traffic_light_bbox), one call per run
SignalCall ==
    /\ last_call.op = "none"
    /\ \E px \in SignalInputs :
         last_call' = [op |-> "detect_signal_state", px |-> px,
                       ret |-> detect_signal_state(px)]
    /\ UNCHANGED <<trackerVars, redLightVars, sessionVars, registryVars,
                   created, events, resolutions, termination>>

NextSignal == SignalCall

SpecSignal == InitRedLight /\ [][NextSignal]_vars

\* C25: detect_signal_state returns 'unknown' exactly when all three counts
\* are below 50; otherwise 'red' when no count exceeds the red one, 'yellow'
\* when the yellow count exceeds the red one and the green one does not
\* exceed it, 'green' when the green count exceeds both.
C25_DominantColour ==
    last_call.op = "detect_signal_state" =>
        LET r == last_call.px.red
            y == last_call.px.yellow
            g == last_call.px.green
        IN /\ last_call.ret \in {"red", "yellow", "green", "unknown"}
           /\ last_call.ret = "unknown" <=> (r < 50 /\ y < 50 /\ g < 50)
           /\ last_call.ret = "red" => (r >= y /\ r >= g)
           /\ last_call.ret = "yellow" => (y > r /\ y >= g)
           /\ last_call.ret = "green" => (g > r /\ g > y)

\* all three counts are 50 and the call returned 'red'
C25_Witness ==
    /\ last_call.op = "detect_signal_state"
    /\ last_call.px.red = 50
    /\ last_call.px.yellow = 50
    /\ last_call.px.green = 50
    /\ last_call.ret = "red"

\* C30: after every update call the centroid history of each track in the
\* store has between 1 and 30 entries and ends with the floored centre of
\* the track's box; a new track starts with one entry; a matched track has
\* the new centre appended to its earlier history, which loses its first
\* entry when it held 30 already.
C30_Step ==
    \A id \in DOMAIN tracked_vehicles' :
        LET v == tracked_vehicles'[id]
            centre == <<(v.bbox[1] + v.bbox[3]) \div 2, (v.bbox[2] + v.bbox[4]) \div 2>>
            matched_now == v.last_frame = frame_idx
        IN /\ Len(v.centroids) >= 1
           /\ Len(v.centroids) <= 30
           /\ v.centroids[Len(v.centroids)] = centre
           /\ id \notin DOMAIN tracked_vehicles => v.centroids = <<centre>>
           /\ (id \in DOMAIN tracked_vehicles /\ matched_now) =>
                 LET old == tracked_vehicles[id].centroids
                 IN v.centroids = IF Len(old) = 30
                                  THEN Tail(old) \o <<centre>>
                                  ELSE old \o <<centre>>
C30_CentroidHistoryBounded == [][C30_Step]_vars

\* the car was matched more than 30 times: its history holds 30 entries,
\* the centre of its first box is no longer among them and the last entry
\* is the centre of its current box
C30_Witness ==
    /\ frame_idx > 31
    /\ \E id \in DOMAIN tracked_vehicles :
          LET v == tracked_vehicles[id]
          IN /\ Len(v.centroids) = 30
             /\ \A k \in 1..30 :
                   v.centroids[k] # <<(created[1].bbox[1] + created[1].bbox[3]) \div 2,
                                      (created[1].bbox[2] + created[1].bbox[4]) \div 2>>
             /\ v.centroids[30] = <<(v.bbox[1] + v.bbox[3]) \div 2,
                                    (v.bbox[2] + v.bbox[4]) \div 2>>

----------------------------------------------------------------------------
(* The session worker on scripted traffic (specifications SpecPlates,      *)
(* SpecDrive and SpecLight): one vehicle at a time drives down the frame,  *)
(* changing its pace a bounded number of times, and is not detected again  *)
(* once a frame has missed it; the next vehicle enters after its track     *)
(* expired.  Every commit of a frame succeeds.  last_call is what the last *)
(* frame fed to the pipeline: whether YOLO reported a traffic light, the   *)
(* box and the pixel counts the signal was classified on, and the signal   *)
(* state of the frame.                                                     *)

\* the changes of pace in a centroid history
PaceChanges(cs) ==
    Cardinality({i \in 1..(Len(cs) - 2) :
                    cs[i + 1][2] - cs[i][2] # cs[i + 2][2] - cs[i + 1][2]})

\* what the detector may report in a frame, for vehicles that change their
\* pace at most P times
DriveDets(tv, P) ==
    {<<>>}
    \cup (IF DOMAIN tv = {}
          THEN {<<Det(VehicleBox(y), "car")>> : y \in EntryYs}
          ELSE LET t == tv[LatestTrack(tv)]
                   y == t.bbox[2]
               IN IF t.frames_missing > 0 THEN {}
                  ELSE {<<Det(VehicleBox(y + m), "car")>> :
                          m \in {n \in Moves :
                                   /\ y + n + 100 <= FRAME_H
                                   /\ PaceChanges(Append(t.centroids,
                                          centroid(VehicleBox(y + n)))) <= P}})

\* lines 257-391: a frame is read and goes through the whole pipeline, in a
\* video of F frames with at most P changes of pace, YOLO results Y, pixel
\* counts X and OCR results O
FrameOf(F, P, Y, X, O) ==
    /\ pc = "loop"
    /\ ~stop_requested(active_video_sessions, VIDEO)
    /\ frame_idx < F
    /\ \E dets \in DriveDets(tracked_vehicles, P), yolo \in Y, px \in X :
       \E ocrs \in [1..Len(dets) -> O] :
         LET R == process_frame(WorkerState,
                                [yolo |-> yolo, px |-> px, dets |-> dets,
                                 ocrs |-> ocrs, failing |-> {}],
                                frame_idx, fps)
             tl == detect_traffic_light_with_yolo(last_detected_signal_bbox, yolo)
         IN /\ SetWorkerState(R)
            /\ last_call' = [op |-> "frame", yolo |-> yolo, px |-> px,
                             traffic_light_bbox |-> tl.bbox,
                             signal_state |-> frame_signal_state(tl.bbox, px)]
            /\ IF R.raised
               THEN /\ pc' = "failed"
                    /\ termination' = "exception"
                    /\ UNCHANGED <<frame_idx, active_video_sessions>>
               ELSE /\ pc' = "loop"
                    /\ frame_idx' = frame_idx + 1
                    /\ active_video_sessions' =
                         set_progress(active_video_sessions, VIDEO,
                                      progress_of(frame_idx, F))
                    /\ UNCHANGED termination
    /\ UNCHANGED <<iou_threshold, max_missing_frames, twin, stop_line_y, fps,
                   processing_sessions, handler, worker>>

\* frames of a video of SpecPlates: enough for a track to expire
MaxPlateFrames == 13
\* changes of pace of a vehicle of SpecPlates and SpecLight
SteadyPaceChanges == 0
\* frames of a video of SpecDrive
MaxDriveFrames == 12
\* changes of pace of a vehicle of SpecDrive
MaxPaceChanges == 2
\* frames of a video of SpecLight
MaxLightFrames == 4

\* the traffic light is detected in every frame
YoloSeen == {Some(TL_BOX)}
\* no plate is ever read
OcrUnread == {[raised |-> FALSE, text |-> NA]}

PlateFrame == FrameOf(MaxPlateFrames, SteadyPaceChanges, YoloSeen, PxInputs, OcrOutcomes)
DriveFrame == FrameOf(MaxDriveFrames, MaxPaceChanges, YoloSeen, PxInputs, OcrUnread)
LightFrame == FrameOf(MaxLightFrames, SteadyPaceChanges, YoloInputs, PxInputs, OcrOutcomes)

NextPlates ==
    \/ PlateFrame
    \/ SourceExhausted
    \/ Flush
    \/ Finally

NextDrive ==
    \/ DriveFrame
    \/ SourceExhausted
    \/ Flush
    \/ Finally

NextLight ==
    \/ LightFrame
    \/ SourceExhausted
    \/ Flush
    \/ Finally

SpecPlates == InitSession /\ [][NextPlates]_vars
SpecDrive == InitSession /\ [][NextDrive]_vars
SpecLight == InitSession /\ [][NextLight]_vars


----------------------------------------------------------------------------
(* Properties of the session worker (specification Spec) *)

\* the track and the detection frame of a saved row are in its image path
RowTrack(row) == row.image_path[1]
Attempted(r) == r.outcome \in {"saved", "failed"}
\* the resolution r is the one of the pending entry e
ResolutionOf(r, e) ==
    /\ r.vehicle_id = e.vehicle_id
    /\ r.violation_type = e.violation_type
    /\ r.detected_frame = e.detected_frame
IsQueued(e) ==
    \E i \in 1..Len(pending_violations) :
        /\ pending_violations[i].vehicle_id = e.vehicle_id
        /\ pending_violations[i].violation_type = e.violation_type
        /\ pending_violations[i].detected_frame = e.detected_frame
IsResolved(e) == \E i \in 1..Len(resolutions) : ResolutionOf(resolutions[i], e)
FlushAttempted(e) ==
    \E i \in 1..Len(resolutions) :
        /\ ResolutionOf(resolutions[i], e)
        /\ resolutions[i].phase = "flush"
        /\ Attempted(resolutions[i])

\* C1: for every track id and violation type at most one violation row is
\* ever saved, over all frames and the end-of-stream flush.
C1_OneRecordPerTrackAndType ==
    \A i, j \in 1..Len(db_violations) :
        (/\ RowTrack(db_violations[i]) = RowTrack(db_violations[j])
         /\ db_violations[i].violation_type = db_violations[j].violation_type)
        => i = j

\* a finished session that saved a row for a track on which two events fired
C1_Witness ==
    /\ pc = "done"
    /\ termination = "exhausted"
    /\ \E i \in 1..Len(db_violations) :
         \E k \in 1..Len(events) :
            /\ events[k].vehicle_id = RowTrack(db_violations[i])
            /\ events[k].violation_type # db_violations[i].violation_type

\* C2: when a second violation type fires for a track whose entry is still
\* pending, the first entry is not lost: every entry that was queued is
\* either still queued or was resolved.
C2_NoPendingLost ==
    \A k \in 1..Len(events) : IsQueued(events[k]) \/ IsResolved(events[k])

\* C3: at the end of every processed frame no pending entry is 5 or more
\* frames old, whatever the frame contained.
C3_ResolvedAtThreshold ==
    (pc = "loop" /\ frame_idx > 0) =>
        \A i \in 1..Len(pending_violations) :
            (frame_idx - 1) - pending_violations[i].detected_frame < CONFIRM_FRAMES

\* C4: at threshold resolution an entry is discarded iff it is a Speeding
\* entry whose recomputed speed is at or below the limit; every other entry
\* (Speeding above the limit, Red Light at any speed) is finalized; a
\* discarded entry leaves no row and a saved one leaves its row.
C4_ThresholdRule ==
    \A i \in 1..Len(resolutions) :
        LET r == resolutions[i]
            rows == {k \in 1..Len(db_violations) :
                        /\ db_violations[k].image_path = <<r.vehicle_id, r.detected_frame>>
                        /\ db_violations[k].violation_type = r.violation_type}
        IN r.phase = "threshold" =>
            /\ (r.outcome = "discarded") <=>
                   (r.violation_type = Speeding /\ r.final_speed <= SPEED_LIMIT * SpeedScale)
            /\ r.outcome = "discarded" => rows = {}
            /\ r.outcome = "saved" =>
                   \E k \in rows : db_violations[k].speed_kmh = Round1(r.final_speed)

\* a Speeding entry was discarded at the threshold
C4_Witness ==
    \E i \in 1..Len(resolutions) :
        /\ resolutions[i].phase = "threshold"
        /\ resolutions[i].violation_type = Speeding
        /\ resolutions[i].outcome = "discarded"

\* C5: at the flush a Speeding entry whose recomputed speed is not above
\* the limit is discarded, as at threshold resolution.
C5_FlushRule ==
    \A i \in 1..Len(resolutions) :
        LET r == resolutions[i]
        IN (/\ r.phase = "flush"
            /\ r.violation_type = Speeding
            /\ r.final_speed <= SPEED_LIMIT * SpeedScale)
           => r.outcome = "discarded"

\* C6: once the stop flag is seen at a frame boundary, or the source is
\* exhausted, no further frame is read, the worker goes through the flush
\* step before it terminates, and the flush attempts to save every entry
\* pending at that moment.
C6_Step ==
    /\ (pc = "loop" /\ stop_requested(active_video_sessions, VIDEO))
          => (pc' = "flush" /\ frame_idx' = frame_idx)
    /\ pc # "loop" => frame_idx' = frame_idx
    /\ (pc = "loop" /\ pc' \notin {"loop", "failed"}) => pc' = "flush"
    /\ pc = "flush" =>
          /\ pc' = "finally"
          /\ \A i \in 1..Len(pending_violations) :
                \E k \in 1..Len(resolutions') :
                    /\ ResolutionOf(resolutions'[k], pending_violations[i])
                    /\ resolutions'[k].phase = "flush"
                    /\ Attempted(resolutions'[k])
    /\ pc' = "finally" => pc = "flush"
C6_StopStillFlushes == [][C6_Step]_vars

\* a cancelled session whose flush attempted a pending entry
C6_Witness ==
    /\ pc = "finally"
    /\ termination = "stop"
    /\ Len(pending_violations) >= 1
    /\ \A i \in 1..Len(pending_violations) : FlushAttempted(pending_violations[i])

\* C7: when the session ends because a frame raised, every entry still
\* pending is resolved before the worker terminates.
C7_FlushOnFailure ==
    (pc = "done" /\ termination = "exception") =>
        \A i \in 1..Len(pending_violations) : IsResolved(pending_violations[i])

\* C8: every pending entry gets at most one persistence attempt in the
\* session; after a failed attempt at the threshold the entry is gone and
\* the frame loop went on to the next frame.
C8_AtMostOneAttempt ==
    /\ \A i, j \in 1..Len(resolutions) :
          (/\ resolutions[i].vehicle_id = resolutions[j].vehicle_id
           /\ resolutions[i].violation_type = resolutions[j].violation_type)
          => i = j
    /\ \A i \in 1..Len(resolutions) :
          resolutions[i].phase = "threshold" =>
              /\ ~IsQueued(resolutions[i])
              /\ frame_idx > resolutions[i].frame

\* a commit failed at the threshold and the session ran on to its flush
C8_Witness ==
    /\ pc = "done"
    /\ termination = "exhausted"
    /\ \E i \in 1..Len(resolutions) :
          /\ resolutions[i].phase = "threshold"
          /\ resolutions[i].outcome = "failed"
          /\ frame_idx > resolutions[i].frame + 1

----------------------------------------------------------------------------
(* Properties of the session worker on scripted traffic (specifications    *)
(* SpecPlates, SpecDrive and SpecLight)                                    *)

\* C32: a row saved for a pending entry, at the threshold or in the flush
\* loop, carries the plate stored on the track when the track is in the
\* store and has one, and otherwise (no stored plate, or the track has
\* expired) the plate text the entry was queued with; its frame number,
\* vehicle class and signal state are those the entry was queued with, and
\* an entry is queued with the frame, the class and the signal state of the
\* frame that detected the violation and is never altered afterwards.
C32_Step ==
    /\ \A k \in (Len(db_violations) + 1)..Len(db_violations') :
          LET row == db_violations'[k]
              vid == RowTrack(row)
          IN /\ PendingHas(pending_violations, vid)
             /\ LET e == PendingGet(pending_violations, vid)
                    stored == vid \in DOMAIN tracked_vehicles'
                              /\ tracked_vehicles'[vid].license_plate # None
                IN /\ row.license_plate = IF stored
                                          THEN tracked_vehicles'[vid].license_plate[1]
                                          ELSE e.plate_text
                   /\ row.frame_number = e.detected_frame
                   /\ row.vehicle_type = e.vehicle_type
                   /\ row.signal_state = e.signal_state
                   /\ row.violation_type = e.violation_type
    /\ \A i \in 1..Len(pending_violations') :
          LET n == pending_violations'[i]
          IN IF /\ PendingHas(pending_violations, n.vehicle_id)
                /\ PendingGet(pending_violations, n.vehicle_id).detected_frame
                      = n.detected_frame
             THEN n = PendingGet(pending_violations, n.vehicle_id)
             ELSE /\ frame_idx' = frame_idx + 1
                  /\ n.detected_frame = frame_idx
                  /\ n.signal_state = last_call'.signal_state
                  /\ n.vehicle_type = tracked_vehicles'[n.vehicle_id].class_name
                  /\ n.plate_text \in {IdPlate(n.vehicle_id)}
                                      \cup {OcrPlate(o.text) : o \in OcrOutcomes}
C32_RecordFields == [][C32_Step]_vars

\* a violation detected under red was saved, with the plate read at
\* detection, by a frame whose signal was green, after its track expired
C32_Witness ==
    /\ pc = "loop"
    /\ last_call.op = "frame"
    /\ last_call.signal_state = "green"
    /\ \E k \in 1..Len(db_violations) :
          /\ RowTrack(db_violations[k]) \notin DOMAIN tracked_vehicles
          /\ db_violations[k].signal_state = "red"
          /\ db_violations[k].license_plate.kind = "ocr"
          /\ db_violations[k].frame_number + CONFIRM_FRAMES < frame_idx - 1
          /\ \E r \in 1..Len(resolutions) :
                /\ resolutions[r].vehicle_id = RowTrack(db_violations[k])
                /\ resolutions[r].phase = "threshold"
                /\ resolutions[r].frame = frame_idx - 1

\* C34: discarding a pending Speeding entry rolls nothing back: the track,
\* while it is in the store, keeps the Speeding type, its count and its
\* flag, the cumulative total stays the number of violation events, and no
\* Speeding entry is queued and no Speeding row saved for that track for
\* the rest of the session, also when it exceeds the limit again; so the
\* total is never below the number of saved rows.
C34_DiscardKeepsMark ==
    /\ total_violations_cumulative = Len(events)
    /\ Len(db_violations) <= stats.total_violations
    /\ \A r \in 1..Len(resolutions) :
          resolutions[r].outcome = "discarded" =>
              LET v == resolutions[r].vehicle_id
              IN /\ resolutions[r].violation_type = Speeding
                 /\ v \in DOMAIN tracked_vehicles =>
                       /\ Speeding \in tracked_vehicles[v].violated_types
                       /\ tracked_vehicles[v].has_violated
                       /\ tracked_vehicles[v].violation_count >= 1
                 /\ Cardinality({k \in 1..Len(events) :
                        /\ events[k].vehicle_id = v
                        /\ events[k].violation_type = Speeding}) = 1
                 /\ ~\E i \in 1..Len(pending_violations) :
                        /\ pending_violations[i].vehicle_id = v
                        /\ pending_violations[i].violation_type = Speeding
                 /\ ~\E k \in 1..Len(db_violations) :
                        /\ RowTrack(db_violations[k]) = v
                        /\ db_violations[k].violation_type = Speeding

\* the Speeding entry of a track was discarded and, frames later, the track
\* reads above the limit again: nothing is queued and the total counts the
\* discarded event while no row was saved
C34_Witness ==
    /\ pc = "loop"
    /\ pending_violations = <<>>
    /\ db_violations = <<>>
    /\ stats.total_violations = 1
    /\ \E r \in 1..Len(resolutions) :
          /\ resolutions[r].outcome = "discarded"
          /\ resolutions[r].frame < frame_idx - 1
          /\ resolutions[r].vehicle_id \in DOMAIN tracked_vehicles
          /\ tracked_vehicles[resolutions[r].vehicle_id].frames_missing = 0
          /\ tracked_vehicles[resolutions[r].vehicle_id].speed_kmh
                > SPEED_LIMIT * SpeedScale

\* C35: until YOLO has reported a traffic light in some frame, every frame
\* has the signal state 'unknown', so no Red Light event is raised and
\* every entry queued carries 'unknown'; from the first report on, a frame
\* in which YOLO reports no traffic light is classified on the box of the
\* latest report, and a frame with a report on the reported box, which
\* becomes the latest.
C35_Step ==
    /\ (last_call'.op = "frame" /\ frame_idx' = frame_idx + 1) =>
          /\ IF last_call'.yolo # None
             THEN /\ last_call'.traffic_light_bbox = last_call'.yolo
                  /\ last_detected_signal_bbox' = last_call'.yolo
             ELSE /\ last_call'.traffic_light_bbox = last_detected_signal_bbox
                  /\ last_detected_signal_bbox' = last_detected_signal_bbox
          /\ last_call'.signal_state =
                IF last_call'.yolo = None /\ last_detected_signal_bbox = None
                THEN "unknown" ELSE detect_signal_state(last_call'.px)
          /\ \A i \in 1..Len(pending_violations') :
                pending_violations'[i].detected_frame = frame_idx =>
                    pending_violations'[i].signal_state = last_call'.signal_state
          /\ \A k \in (Len(events) + 1)..Len(events') :
                events'[k].violation_type = RedLight => last_call'.signal_state = "red"
    /\ last_detected_signal_bbox' = None =>
          /\ \A k \in 1..Len(events') : events'[k].violation_type # RedLight
          /\ \A i \in 1..Len(pending_violations') :
                pending_violations'[i].signal_state = "unknown"
          /\ \A k \in 1..Len(db_violations') :
                db_violations'[k].signal_state = "unknown"
C35_SignalBoxCached == [][C35_Step]_vars

\* a Speeding entry queued before the first report of a traffic light
\* carries 'unknown'; a later frame without a report was classified red on
\* the box reported in between
C35_Witness ==
    /\ last_call.op = "frame"
    /\ last_call.yolo = None
    /\ last_call.traffic_light_bbox = Some(TL_BOX)
    /\ last_call.signal_state = "red"
    /\ \E i \in 1..Len(pending_violations) :
          /\ pending_violations[i].signal_state = "unknown"
          /\ pending_violations[i].detected_frame < frame_idx - 2

=============================================================================
